---- MODULE Spec2Model ----
(***************************************************************************)
(* DEX-analyzer: the price cache and bulk fetch of DataService, the spread *)
(* search of ArbitrageScannerThread and of ArbitrageAnalyzer.              *)
(*                                                                         *)
(* Prices are integers in units of 1e-6 USD (the code rounds venue prices  *)
(* to 6 decimals).  Percentages are exact rationals [num, den]: the        *)
(* model does not reproduce binary floating point.  Time is in seconds.    *)
(***************************************************************************)
EXTENDS Integers, Sequences, FiniteSets, TLC

VARIABLES
    now,        \* the clock read by the TTL cache (seconds)
    cache,      \* DataService.price_cache: key -> [value, expires]
    last,       \* the last DataService call: arguments, requests, result
    tracked,    \* tracked_tokens rows in get_tracked_tokens order
    sc_pc,      \* ArbitrageScannerThread: position in run()
    sc_tracked, \* ArbitrageScannerThread.tracked_tokens
    sc_prices,  \* run(): all_prices
    sc_i,       \* run(): index of the next tracked token (1-based)
    sc_found,   \* run(): opportunities_found
    signals,    \* signals emitted by the scanner thread of the current scan
    an_pc,      \* ArbitrageAnalyzer.find_opportunities: position
    an_threshold, \* ArbitrageAnalyzer.threshold
    an_i,       \* find_opportunities: index of the next token
    an_prices,  \* find_opportunities: prices of the token handled last
    an_opps,    \* find_opportunities: opportunities
    is_tracked, \* tokens.is_tracked of the seeded tokens
    tm_last,    \* the TokenManager / DatabaseManager call made last
    prefs,      \* user_preferences: key -> value
    current_theme, \* ThemeManager.current_theme
    theme_btn,  \* MainWindow.theme_toggle_btn: the theme its text names
    pf_last,    \* the preference / theme call made last
    pv_last,    \* the CoinGeckoProvider.get_multiple_prices call made last
    gp_last,    \* the venue prices generated last from one base price
    mg_last,    \* the MigrationManager.run_migrations call made last
    sc_threads, \* ArbitrageScannerThread objects started whose run() has not returned
    scan_btn,   \* ArbitrageTable.scan_btn is enabled
    status_label, \* ArbitrageTable.status_label
    opportunities, \* ArbitrageTable.opportunities
    table_rows, \* ArbitrageTable.table: number of rows
    wd_delivered, \* signals of the current scan already handled by their slots
    wd_stale,   \* signals of earlier scans not yet handled by their slots
    wd_last,    \* the scan request made last and what it did
    ft_pc,      \* PriceFetcherThread: position in run()
    ft_tokens,  \* PriceFetcherThread.tokens
    ft_prices,  \* run(): all_prices
    ft_i,       \* run(): index of the next token (1-based)
    ft_signals, \* signals emitted by the fetcher thread of the current refresh
    ft_interrupt, \* PriceFetcherThread: interruption requested
    ft_threads, \* PriceFetcherThread objects started whose run() has not returned
    refresh_btn, \* CurrentPricesTable.refresh_btn is enabled
    fw_status,  \* CurrentPricesTable.status_label
    prices_cache, \* CurrentPricesTable.prices_cache
    fw_rows,    \* CurrentPricesTable.table: the symbols of its rows
    fw_delivered, \* signals of the current refresh already handled by their slots
    fw_stale,   \* signals of earlier refreshes not yet handled by their slots
    fw_last     \* the refresh request made last and what it did

vars == <<now, cache, last, tracked, sc_pc, sc_tracked, sc_prices, sc_i,
          sc_found, signals, an_pc, an_threshold, an_i, an_prices, an_opps,
          is_tracked, tm_last, prefs, current_theme, theme_btn, pf_last,
          pv_last, gp_last, mg_last, sc_threads, scan_btn, status_label,
          opportunities, table_rows, wd_delivered, wd_stale, wd_last,
          ft_pc, ft_tokens, ft_prices, ft_i, ft_signals, ft_interrupt, ft_threads,
          refresh_btn, fw_status, prices_cache, fw_rows, fw_delivered, fw_stale,
          fw_last>>

dsVars == <<now, cache, last>>
scVars == <<sc_pc, sc_tracked, sc_prices, sc_i, sc_found, signals>>
anVars == <<an_pc, an_threshold, an_i, an_prices, an_opps>>
tmVars == <<is_tracked, tm_last>>
uiVars == <<prefs, current_theme, theme_btn, pf_last>>
pvVars == <<pv_last, gp_last>>
mgVars == <<mg_last>>
wdVars == <<scan_btn, status_label, opportunities, table_rows, wd_delivered,
            wd_stale, wd_last>>
ftVars == <<ft_pc, ft_tokens, ft_prices, ft_i, ft_signals, ft_interrupt, ft_threads>>
fwVars == <<refresh_btn, fw_status, prices_cache, fw_rows, fw_delivered, fw_stale,
            fw_last>>
thVars == <<wdVars, ftVars, fwVars>>

----------------------------------------------------------------------------
(* Bounds of the model *)

NumTokens == 2      \* tokens of Config.TOKENS_CONFIG in the model
NumDex == 3         \* venues of the venue list in the model
MaxSymbols == 2     \* longest token_symbols argument of a direct call
MaxCallDex == 2     \* longest dex_keys argument of a direct call
MaxTime == 30       \* the clock stops here
TickStep == 15      \* seconds per clock step

(* Program constants *)

PRICE_CACHE_TTL == 30

TOKENS_CONFIG == <<"WBTC", "ETH", "USDT", "USDC", "BNB">>

DEX_CONFIG == <<"uniswap_v3", "pancakeswap_v3", "sushiswap", "curve">>

Min(a, b) == IF a < b THEN a ELSE b

TokenIds == 1..Min(NumTokens, Len(TOKENS_CONFIG))

Symbols == {TOKENS_CONFIG[i] : i \in TokenIds}

\* ArbitrageScannerThread.dex_keys, PriceFetcherThread.dex_keys
dex_keys == SubSeq(DEX_CONFIG, 1, Min(NumDex, Len(DEX_CONFIG)))

Range(s) == {s[i] : i \in DOMAIN s}

Dexes == Range(dex_keys)

\* CoinGeckoProvider.SYMBOL_TO_ID.get(symbol): the id, "" when unmapped
SYMBOL_TO_ID(symbol) ==
    CASE symbol = "WBTC" -> "wrapped-bitcoin"
      [] symbol = "ETH"  -> "ethereum"
      [] symbol = "USDT" -> "tether"
      [] symbol = "USDC" -> "usd-coin"
      [] symbol = "BNB"  -> "binancecoin"
      [] OTHER -> ""

(* Inputs from the environment *)

\* "usd" of an upstream answer, in 1e-6 USD; 0 is coin_data.get("usd", 0)
BasePrices == {0, 1000}

\* the answers of an upstream that quotes every coin it answers for
QuotedPrices == {1000}

\* random.uniform(0.999, 1.02), in thousandths: both ends of the range
Variations == {999, 1020}

\* HTTP outcomes of one request
Statuses == {"200", "429", "500", "exception"}

----------------------------------------------------------------------------
(* Sequences *)

RECURSIVE SeqsUpTo(_, _)
SeqsUpTo(S, n) ==
    IF n = 0 THEN {<<>>}
    ELSE LET shorter == SeqsUpTo(S, n - 1)
         IN  shorter \cup {Append(s, x) : s \in {t \in shorter : Len(t) = n - 1}, x \in S}

\* the dex_keys arguments of direct calls: non-empty prefixes of the venue list
DexKeyLists == {SubSeq(dex_keys, 1, n) : n \in 1..Min(MaxCallDex, Len(dex_keys))}

----------------------------------------------------------------------------
(* SimpleCache over cachetools.TTLCache *)

\* SimpleCache.make_key(symbol, dex_key): the md5 of the JSON of the arguments,
\* one key per argument tuple
make_key(symbol, dex_key) == <<symbol, dex_key>>

\* mutant: no entry is ever visible
CacheHit_Never(c, key, t) == FALSE

\* TTLCache.__getitem__: an entry is visible while timer() < expires
CacheHit(c, key, t) == key \in DOMAIN c /\ t < c[key].expires

\* SimpleCache.get(key) of a visible entry
CacheGet(c, key) == c[key].value

\* TTLCache.expire(time): drops the entries with expires <= time
Expire(c, t) == [k \in {j \in DOMAIN c : t < c[j].expires} |-> c[k]]

\* SimpleCache.set(key, value): expire, then store with expires = time + ttl
CacheSet(c, key, value, t) ==
    LET live == Expire(c, t)
    IN  [k \in DOMAIN live \cup {key} |->
            IF k = key THEN [value |-> value, expires |-> t + PRICE_CACHE_TTL]
            ELSE live[k]]

----------------------------------------------------------------------------
(* DataService *)

\* Python round(x, 6) of the exact product num/den: half to even
RoundDiv(num, den) ==
    LET q == num \div den
        r == num % den
    IN  IF 2 * r < den THEN q
        ELSE IF 2 * r > den THEN q + 1
        ELSE IF q % 2 = 0 THEN q ELSE q + 1

\* DataService._generate_dex_price(base_data, dex_key) with the drawn variation
generate_dex_price(base, dex_key, variation) ==
    [price_usd |-> RoundDiv(base.price_usd * variation, 1000),
     last_updated |-> base.last_updated,
     source |-> dex_key]

\* CoinGeckoProvider.get_multiple_prices: the ids requested for token_symbols
coin_ids(token_symbols) ==
    LET keep == SelectSeq(token_symbols, LAMBDA s : SYMBOL_TO_ID(s) # "")
    IN  [i \in DOMAIN keep |-> SYMBOL_TO_ID(keep[i])]

\* mutant: one request per coin id
multiple_requests_PerId(token_symbols) ==
    [i \in DOMAIN coin_ids(token_symbols) |-> <<coin_ids(token_symbols)[i]>>]

\* the HTTP requests one get_multiple_prices call issues
multiple_requests(token_symbols) ==
    IF coin_ids(token_symbols) = <<>> THEN <<>> ELSE <<coin_ids(token_symbols)>>

\* the coin ids the upstream knows
CoinIds == {SYMBOL_TO_ID(s) : s \in Symbols}

\* the answers the upstream can give to a request for token_symbols: a status,
\* and with status 200 a JSON object coin id -> price
Answers(token_symbols, bases) ==
    {[status |-> "200", data |-> d] :
        d \in UNION {[S -> bases] : S \in SUBSET CoinIds}}
    \cup {[status |-> st, data |-> <<>>] : st \in Statuses \ {"200"}}

\* mutant: a failed request yields a record without a price for every
\* requested symbol
get_multiple_prices_ZeroOnFailure(token_symbols, answer, t) ==
    LET ids == Range(coin_ids(token_symbols))
        symbol_to_id == [id \in ids |->
                            CHOOSE s \in Range(token_symbols) : SYMBOL_TO_ID(s) = id]
    IN  IF ids = {} THEN <<>>
        ELSE IF answer.status = "200" /\ DOMAIN answer.data \subseteq ids
        THEN [s \in {symbol_to_id[id] : id \in DOMAIN answer.data} |->
                 [price_usd |-> answer.data[SYMBOL_TO_ID(s)], last_updated |-> t]]
        ELSE [s \in {symbol_to_id[id] : id \in ids} |->
                 [price_usd |-> 0, last_updated |-> t]]

\* CoinGeckoProvider.get_multiple_prices(token_symbols): symbol -> base_data
\* (an id of the answer that was not asked for raises KeyError, which the
\* except branch turns into {})
get_multiple_prices(token_symbols, answer, t) ==
    LET ids == Range(coin_ids(token_symbols))
        symbol_to_id == [id \in ids |->
                            CHOOSE s \in Range(token_symbols) : SYMBOL_TO_ID(s) = id]
    IN  IF ids = {} THEN <<>>
        ELSE IF answer.status = "200" /\ DOMAIN answer.data \subseteq ids
        THEN [s \in {symbol_to_id[id] : id \in DOMAIN answer.data} |->
                 [price_usd |-> answer.data[SYMBOL_TO_ID(s)], last_updated |-> t]]
        ELSE <<>>

\* mutant: a symbol is appended for each of its occurrences
RECURSIVE cache_misses_Repeated(_, _, _, _)
cache_misses_Repeated(c, token_symbols, dexes, t) ==
    IF token_symbols = <<>> THEN <<>>
    ELSE LET n == Len(token_symbols)
             front == cache_misses_Repeated(c, SubSeq(token_symbols, 1, n - 1), dexes, t)
             symbol == token_symbols[n]
             missing == \E d \in Range(dexes) : ~CacheHit(c, make_key(symbol, d), t)
         IN  IF missing THEN Append(front, symbol) ELSE front

\* get_bulk_prices_all_dexes, step 1: the symbols with a missing venue, each
\* once, in the order of token_symbols
RECURSIVE cache_misses(_, _, _, _)
cache_misses(c, token_symbols, dexes, t) ==
    IF token_symbols = <<>> THEN <<>>
    ELSE LET n == Len(token_symbols)
             front == cache_misses(c, SubSeq(token_symbols, 1, n - 1), dexes, t)
             symbol == token_symbols[n]
             missing == \E d \in Range(dexes) : ~CacheHit(c, make_key(symbol, d), t)
         IN  IF missing /\ symbol \notin Range(front)
             THEN Append(front, symbol) ELSE front

\* step 1: cache_hits[symbol][dex_key] of the visible entries
cache_hits(c, token_symbols, dexes, t) ==
    [symbol \in Range(token_symbols) |->
        [d \in {x \in Range(dexes) : CacheHit(c, make_key(symbol, x), t)} |->
            CacheGet(c, make_key(symbol, d))]]

\* step 3: the cache after storing the records generated for base_prices
RECURSIVE StoreAll(_, _, _, _)
StoreAll(c, keys, fresh, t) ==
    IF keys = {} THEN c
    ELSE LET k == CHOOSE x \in keys : TRUE
         IN  StoreAll(CacheSet(c, k, fresh[k], t), keys \ {k}, fresh, t)

\* the records generated in step 3: one per fetched symbol and venue
Generated(base_prices, dexes, variation) ==
    [k \in {make_key(s, d) : s \in DOMAIN base_prices, d \in Range(dexes)} |->
        generate_dex_price(base_prices[k[1]], k[2], variation[k])]

\* step 4: the returned mapping
BulkResult(hits, base_prices, dexes, fresh) ==
    [symbol \in DOMAIN hits \cup DOMAIN base_prices |->
        IF symbol \in DOMAIN base_prices
        THEN [d \in Range(dexes) |-> fresh[make_key(symbol, d)]]
        ELSE hits[symbol]]

\* DataService.get_bulk_prices_all_dexes(token_symbols, dexes)
get_bulk_prices_all_dexes(c, token_symbols, dexes, answer, variation, t) ==
    LET misses == cache_misses(c, token_symbols, dexes, t)
        hits == cache_hits(c, token_symbols, dexes, t)
        base_prices == IF misses = <<>> THEN <<>>
                       ELSE get_multiple_prices(misses, answer, t)
        fresh == Generated(base_prices, dexes, variation)
    IN  [cache |-> StoreAll(c, DOMAIN fresh, fresh, t),
         requests |-> IF misses = <<>> THEN <<>> ELSE multiple_requests(misses),
         result |-> IF token_symbols = <<>> THEN <<>>
                    ELSE BulkResult(hits, base_prices, dexes, fresh)]

\* the variations drawn for the venues of the symbols in syms
VariationChoices(syms, dexes) ==
    [{make_key(s, d) : s \in syms, d \in Range(dexes)} -> Variations]

\* CoinGeckoProvider.get_token_price(symbol): <<base_data>>, <<>> for None
provider_get_token_price(symbol, answer, t) ==
    IF SYMBOL_TO_ID(symbol) = "" THEN <<>>
    ELSE IF answer.status = "200" /\ SYMBOL_TO_ID(symbol) \in DOMAIN answer.data
         THEN <<[price_usd |-> answer.data[SYMBOL_TO_ID(symbol)], last_updated |-> t]>>
         ELSE <<>>

\* DataService.get_token_price(symbol, dex_key): the cache, the requests and
\* the returned record (<<>> for None)
get_token_price(c, symbol, dex_key, answer, variation, t) ==
    LET key == make_key(symbol, dex_key)
        base == provider_get_token_price(symbol, answer, t)
        rec == generate_dex_price(base[1], dex_key, variation)
    IN  IF CacheHit(c, key, t)
        THEN [cache |-> c, requests |-> <<>>, result |-> <<CacheGet(c, key)>>]
        ELSE IF base = <<>>
        THEN [cache |-> c,
              requests |-> IF SYMBOL_TO_ID(symbol) = "" THEN <<>>
                           ELSE <<(<<SYMBOL_TO_ID(symbol)>>)>>,
              result |-> <<>>]
        ELSE [cache |-> CacheSet(c, key, rec, t),
              requests |-> <<(<<SYMBOL_TO_ID(symbol)>>)>>,
              result |-> <<rec>>]

NoCall ==
    [op |-> "none", symbols |-> <<>>, dexes |-> <<>>, time |-> 0, pre |-> <<>>,
     requests |-> <<>>, result |-> <<>>]

\* a call of get_bulk_prices_all_dexes by any caller
BulkCall(token_symbols, dexes, bases) ==
    \E answer \in Answers(cache_misses(cache, token_symbols, dexes, now), bases) :
    \E variation \in VariationChoices(
                         Range(cache_misses(cache, token_symbols, dexes, now)), dexes) :
        LET r == get_bulk_prices_all_dexes(cache, token_symbols, dexes,
                                           answer, variation, now)
        IN  /\ cache' = r.cache
            /\ last' = [op |-> "bulk", symbols |-> token_symbols, dexes |-> dexes,
                        time |-> now, pre |-> cache, requests |-> r.requests,
                        result |-> r.result]

\* DataService.get_bulk_prices_all_dexes called directly
GetBulk ==
    /\ last.op = "none"
    /\ \E token_symbols \in SeqsUpTo(Symbols, MaxSymbols), dexes \in DexKeyLists :
           BulkCall(token_symbols, dexes, QuotedPrices)
    /\ UNCHANGED <<now, tracked, scVars, anVars, tmVars, uiVars, pvVars, mgVars, sc_threads, thVars>>

\* DataService.get_token_price called directly (get_all_dex_prices calls it
\* once per venue)
GetTokenPrice ==
    /\ last.op = "none"
    /\ \E symbol \in Symbols, d \in Range(SubSeq(dex_keys, 1, Min(MaxCallDex, Len(dex_keys)))) :
       \E answer \in Answers(<<symbol>>, QuotedPrices), variation \in Variations :
           LET r == get_token_price(cache, symbol, d, answer, variation, now)
           IN  /\ cache' = r.cache
               /\ last' = [op |-> "single", symbols |-> <<symbol>>, dexes |-> <<d>>,
                           time |-> now, pre |-> cache, requests |-> r.requests,
                           result |-> IF r.result = <<>> THEN <<>>
                                      ELSE (symbol :> (d :> r.result[1]))]
    /\ UNCHANGED <<now, tracked, scVars, anVars, tmVars, uiVars, pvVars, mgVars, sc_threads, thVars>>

\* DataService.get_bulk_prices_all_dexes called directly, with the answer of
\* the upstream kept in the record of the call; the upstream may leave out
\* the price of a coin it answers for
GetBulkAnswered ==
    /\ last.op = "none"
    /\ \E token_symbols \in SeqsUpTo(Symbols, MaxSymbols), dexes \in DexKeyLists :
       \E answer \in Answers(cache_misses(cache, token_symbols, dexes, now), BasePrices) :
       \E variation \in VariationChoices(
                            Range(cache_misses(cache, token_symbols, dexes, now)), dexes) :
           LET r == get_bulk_prices_all_dexes(cache, token_symbols, dexes,
                                              answer, variation, now)
           IN  /\ cache' = r.cache
               /\ last' = [op |-> "bulk", symbols |-> token_symbols, dexes |-> dexes,
                           time |-> now, pre |-> cache, requests |-> r.requests,
                           result |-> r.result, answer |-> answer]
    /\ UNCHANGED <<now, tracked, scVars, anVars, tmVars, uiVars, pvVars, mgVars, sc_threads, thVars>>

\* the caller of a direct call has taken the returned value
Return ==
    /\ last.op # "none"
    /\ last' = NoCall
    /\ UNCHANGED <<now, cache, tracked, scVars, anVars, tmVars, uiVars, pvVars, mgVars, sc_threads, thVars>>

\* the clock advances
Tick ==
    /\ last.op = "none"
    /\ now + TickStep <= MaxTime
    /\ now' = now + TickStep
    /\ UNCHANGED <<cache, last, tracked, scVars, anVars, tmVars, uiVars, pvVars, mgVars, sc_threads, thVars>>

----------------------------------------------------------------------------
(* Exact rationals for percentages *)

RECURSIVE GCD(_, _)
GCD(a, b) == IF b = 0 THEN a ELSE GCD(b, a % b)

Abs(x) == IF x < 0 THEN -x ELSE x

\* num/den with den > 0, in lowest terms
Rat(num, den) ==
    LET g == GCD(Abs(num), den)
    IN  [num |-> num \div g, den |-> den \div g]

RatGE(a, b) == a.num * b.den >= b.num * a.den

RatGT(a, b) == a.num * b.den > b.num * a.den

----------------------------------------------------------------------------
(* ArbitrageScannerThread *)

Modes == {"percentage", "dollar"}

\* threshold values a user enters: per cent, or 1e-6 USD in dollar mode
ThresholdValues == {1, 30}

\* the pairs (i, j), i < j <= n, in the order of the two nested loops
RECURSIVE PairsFrom(_, _, _)
PairsFrom(i, j, n) ==
    IF i >= n THEN <<>>
    ELSE IF j > n THEN PairsFrom(i + 1, i + 2, n)
    ELSE <<(<<i, j>>)>> \o PairsFrom(i, j + 1, n)

\* mutant: the percentage is taken of the sell price
profit_pct_OfSellPrice(profit_usd, buy_price) ==
    IF buy_price > 0 THEN Rat(profit_usd * 100, buy_price + profit_usd) ELSE Rat(0, 1)

\* profit_pct = (profit_usd / buy_price * 100) if buy_price > 0 else 0
profit_pct(profit_usd, buy_price) ==
    IF buy_price > 0 THEN Rat(profit_usd * 100, buy_price) ELSE Rat(0, 1)

\* mutant: the percentage threshold is compared with the dollar profit
threshold_met_DollarOnly(row, pct, usd) == usd >= row.threshold_value

\* the threshold check of find_opportunities
threshold_met(row, pct, usd) ==
    IF row.threshold_mode = "percentage"
    THEN RatGE(pct, Rat(row.threshold_value, 1))
    ELSE usd >= row.threshold_value

\* the opportunity dict built for one pair of venues
opportunity(row, buy, sell) ==
    LET usd == sell[2] - buy[2]
        pct == profit_pct(usd, buy[2])
    IN  [token_id |-> row.token_id,
         buy_dex |-> buy[1], buy_price |-> buy[2],
         sell_dex |-> sell[1], sell_price |-> sell[2],
         profit_usd |-> usd, profit_pct |-> pct,
         threshold_value |-> row.threshold_value,
         threshold_mode |-> row.threshold_mode,
         threshold_met |-> threshold_met(row, pct, usd)]

\* mutant: no pair is skipped
PairKept_All(dex_list, pair) == TRUE

\* a pair is skipped when buy_price >= sell_price
PairKept(dex_list, pair) == ~(dex_list[pair[1]][2] >= dex_list[pair[2]][2])

\* list.sort(key=profit_pct, reverse=True): stable, descending
RECURSIVE SortByProfit(_)
SortByProfit(opps) ==
    IF opps = <<>> THEN <<>>
    ELSE LET n == Len(opps)
             sorted == SortByProfit(SubSeq(opps, 1, n - 1))
             x == opps[n]
             pos == Cardinality({k \in DOMAIN sorted :
                                    RatGE(sorted[k].profit_pct, x.profit_pct)})
         IN  SubSeq(sorted, 1, pos) \o <<x>> \o SubSeq(sorted, pos + 1, Len(sorted))

\* ArbitrageScannerThread.find_opportunities(token, tracked, prices); prices
\* is the dict as the sequence of its items <<dex, price>>
find_opportunities(row, dex_list) ==
    LET pairs == SelectSeq(PairsFrom(1, 2, Len(dex_list)),
                           LAMBDA p : PairKept(dex_list, p))
        opps == [k \in DOMAIN pairs |->
                    opportunity(row, dex_list[pairs[k][1]], dex_list[pairs[k][2]])]
    IN  SortByProfit(opps)

\* run(), lines 63-70: the venues with a truthy price_usd, in dex_keys order
ExtractPrices(all_prices, symbol) ==
    IF symbol \notin DOMAIN all_prices THEN <<>>
    ELSE LET have == SelectSeq(dex_keys, LAMBDA d :
                        /\ d \in DOMAIN all_prices[symbol]
                        /\ all_prices[symbol][d].price_usd # 0)
         IN  [k \in DOMAIN have |-> <<have[k], all_prices[symbol][have[k]].price_usd>>]

\* run(), lines 72-77: the opportunities emitted for one tracked token
TokenOpps(all_prices, row) ==
    LET prices == ExtractPrices(all_prices, TOKENS_CONFIG[row.token_id])
    IN  IF Len(prices) >= 2 THEN find_opportunities(row, prices) ELSE <<>>

NoOpp ==
    [token_id |-> 0, buy_dex |-> "", buy_price |-> 0, sell_dex |-> "",
     sell_price |-> 0, profit_usd |-> 0, profit_pct |-> Rat(0, 1),
     threshold_value |-> 0, threshold_mode |-> "", threshold_met |-> FALSE]

Progress(current, total) == [sig |-> "progress", a |-> current, b |-> total, opp |-> NoOpp]
Found(opp) == [sig |-> "opportunity_found", a |-> 0, b |-> 0, opp |-> opp]
Finished(total) == [sig |-> "finished", a |-> total, b |-> 0, opp |-> NoOpp]

----------------------------------------------------------------------------
(* DatabaseManager: tokens.is_tracked and the tracked_tokens rows (latest  *)
(* first), and TokenManager over them                                      *)

\* an id that no row of the tokens table has (AUTOINCREMENT ids start at 1)
UnseededId == 0

\* threshold_value arguments
ThresholdArgs == ThresholdValues \cup {-1}

\* threshold_mode arguments
ModeArgs == Modes \cup {"percent"}

\* the outcome of a call: returned value or raised exception, rows and flags
Outcome(ret, rows, flags) == [ret |-> ret, rows |-> rows, flags |-> flags]

\* DatabaseManager.add_tracked_token: INSERT OR REPLACE (the CHECK on
\* threshold_mode raises IntegrityError), then UPDATE tokens SET is_tracked = 1
add_tracked_token(rows, flags, token_id, value, mode) ==
    IF mode \notin Modes THEN Outcome("IntegrityError", rows, flags)
    ELSE Outcome("ok",
                 <<[token_id |-> token_id, threshold_value |-> value,
                    threshold_mode |-> mode]>>
                     \o SelectSeq(rows, LAMBDA r : r.token_id # token_id),
                 [t \in DOMAIN flags |-> IF t = token_id THEN TRUE ELSE flags[t]])

\* mutant: the is_tracked flag is left as it was
remove_tracked_token_KeepFlag(rows, flags, token_id) ==
    Outcome("ok", SelectSeq(rows, LAMBDA r : r.token_id # token_id), flags)

\* DatabaseManager.remove_tracked_token: DELETE, then is_tracked = 0
remove_tracked_token(rows, flags, token_id) ==
    Outcome("ok", SelectSeq(rows, LAMBDA r : r.token_id # token_id),
            [t \in DOMAIN flags |-> IF t = token_id THEN FALSE ELSE flags[t]])

\* DatabaseManager.update_token_threshold: UPDATE ... WHERE token_id = ?
db_update_token_threshold(rows, flags, token_id, value, mode) ==
    IF mode \notin Modes /\ \E k \in DOMAIN rows : rows[k].token_id = token_id
    THEN Outcome("IntegrityError", rows, flags)
    ELSE Outcome("ok",
                 [k \in DOMAIN rows |->
                     IF rows[k].token_id = token_id
                     THEN [rows[k] EXCEPT !.threshold_value = value,
                                          !.threshold_mode = mode]
                     ELSE rows[k]],
                 flags)

\* DatabaseManager.clear_all_data
clear_all_data(rows, flags) == Outcome("ok", <<>>, [t \in DOMAIN flags |-> FALSE])

\* DatabaseManager.get_tracked_tokens: tokens JOIN tracked_tokens
\* WHERE is_tracked = 1 ORDER BY added_at DESC
get_tracked_tokens(rows, flags) ==
    SelectSeq(rows, LAMBDA r : r.token_id \in DOMAIN flags /\ flags[r.token_id])

\* DatabaseManager.get_available_tokens: the ids of the tokens with is_tracked = 0
get_available_tokens(flags) == {t \in DOMAIN flags : ~flags[t]}

\* mutant: the arguments are not validated
add_token_to_tracked_Unchecked(rows, flags, token_id, value, mode) ==
    LET r == add_tracked_token(rows, flags, token_id, value, mode)
    IN  Outcome(r.ret = "ok", r.rows, r.flags)

\* TokenManager.add_token_to_tracked
add_token_to_tracked(rows, flags, token_id, value, mode) ==
    IF value < 0 THEN Outcome(FALSE, rows, flags)
    ELSE IF mode \notin Modes THEN Outcome(FALSE, rows, flags)
    ELSE LET r == add_tracked_token(rows, flags, token_id, value, mode)
         IN  Outcome(r.ret = "ok", r.rows, r.flags)

\* TokenManager.remove_token_from_tracked
remove_token_from_tracked(rows, flags, token_id) ==
    LET r == remove_tracked_token(rows, flags, token_id)
    IN  Outcome(r.ret = "ok", r.rows, r.flags)

\* mutant: the arguments are not validated
update_token_threshold_Unchecked(rows, flags, token_id, value, mode) ==
    LET r == db_update_token_threshold(rows, flags, token_id, value, mode)
    IN  Outcome(r.ret = "ok", r.rows, r.flags)

\* TokenManager.update_token_threshold
update_token_threshold(rows, flags, token_id, value, mode) ==
    IF value < 0 THEN Outcome(FALSE, rows, flags)
    ELSE IF mode \notin Modes THEN Outcome(FALSE, rows, flags)
    ELSE LET r == db_update_token_threshold(rows, flags, token_id, value, mode)
         IN  Outcome(r.ret = "ok", r.rows, r.flags)

NoTmCall ==
    [op |-> "none", token_id |-> 0, value |-> 0, mode |-> "", ret |-> TRUE,
     pre_rows |-> <<>>, pre_flags |-> <<>>]

\* a call op(token_id, value, mode) with outcome r
TmCall(op, token_id, value, mode, r) ==
    /\ tracked' = r.rows
    /\ is_tracked' = r.flags
    /\ tm_last' = [op |-> op, token_id |-> token_id, value |-> value, mode |-> mode,
                   ret |-> r.ret, pre_rows |-> tracked, pre_flags |-> is_tracked]

\* TokenManager.add_token_to_tracked called with any arguments
AddTokenToTracked ==
    /\ \E token_id \in TokenIds \cup {UnseededId}, value \in ThresholdArgs, mode \in ModeArgs :
           TmCall("add_token_to_tracked", token_id, value, mode,
                  add_token_to_tracked(tracked, is_tracked, token_id, value, mode))
    /\ UNCHANGED <<dsVars, scVars, anVars, uiVars, pvVars, mgVars, sc_threads, thVars>>

\* TokenManager.update_token_threshold called with any arguments
TmUpdateTokenThreshold ==
    /\ \E token_id \in TokenIds \cup {UnseededId}, value \in ThresholdArgs, mode \in ModeArgs :
           TmCall("update_token_threshold", token_id, value, mode,
                  update_token_threshold(tracked, is_tracked, token_id, value, mode))
    /\ UNCHANGED <<dsVars, scVars, anVars, uiVars, pvVars, mgVars, sc_threads, thVars>>

\* TokenManager.remove_token_from_tracked called with any token id
RemoveTokenFromTracked ==
    /\ \E token_id \in TokenIds \cup {UnseededId} :
           TmCall("remove_token_from_tracked", token_id, 0, "",
                  remove_token_from_tracked(tracked, is_tracked, token_id))
    /\ UNCHANGED <<dsVars, scVars, anVars, uiVars, pvVars, mgVars, sc_threads, thVars>>

\* DatabaseManager.add_tracked_token called on a seeded token
DbAddTrackedToken ==
    /\ \E token_id \in TokenIds, value \in ThresholdArgs, mode \in ModeArgs :
           TmCall("add_tracked_token", token_id, value, mode,
                  add_tracked_token(tracked, is_tracked, token_id, value, mode))
    /\ UNCHANGED <<dsVars, scVars, anVars, uiVars, pvVars, mgVars, sc_threads, thVars>>

\* DatabaseManager.remove_tracked_token called on a seeded token
DbRemoveTrackedToken ==
    /\ \E token_id \in TokenIds :
           TmCall("remove_tracked_token", token_id, 0, "",
                  remove_tracked_token(tracked, is_tracked, token_id))
    /\ UNCHANGED <<dsVars, scVars, anVars, uiVars, pvVars, mgVars, sc_threads, thVars>>

\* DatabaseManager.update_token_threshold called on a seeded token
DbUpdateTokenThreshold ==
    /\ \E token_id \in TokenIds, value \in ThresholdArgs, mode \in ModeArgs :
           TmCall("db_update_token_threshold", token_id, value, mode,
                  db_update_token_threshold(tracked, is_tracked, token_id, value, mode))
    /\ UNCHANGED <<dsVars, scVars, anVars, uiVars, pvVars, mgVars, sc_threads, thVars>>

\* DatabaseManager.clear_all_data
DbClearAllData ==
    /\ TmCall("clear_all_data", 0, 0, "", clear_all_data(tracked, is_tracked))
    /\ UNCHANGED <<dsVars, scVars, anVars, uiVars, pvVars, mgVars, sc_threads, thVars>>

\* the Qt application has not been used (the two applications are two programs)
TkOnly == sc_pc = "idle" /\ last.op = "none"
QtOnly == an_pc = "idle"

\* TokenManager.update_token_threshold(token_id, value, mode), between scans:
\* a running scan reads only the rows it was started with
UpdateTokenThreshold ==
    /\ QtOnly
    /\ sc_pc \in {"idle", "done"}
    /\ \E token_id \in TokenIds, value \in ThresholdValues \cup {-1},
          mode \in Modes \cup {"percent"} :
          tracked' = update_token_threshold(tracked, is_tracked, token_id, value, mode).rows
    /\ UNCHANGED <<dsVars, scVars, anVars, tmVars, uiVars, pvVars, mgVars, sc_threads, thVars>>

\* ArbitrageTable.scan_opportunities when no scan runs and tokens are tracked:
\* the scanner thread is created and started
ScanOpportunities ==
    /\ QtOnly
    /\ sc_pc \in {"idle", "done", "failed"}
    /\ get_tracked_tokens(tracked, is_tracked) # <<>>
    /\ sc_pc' = "start"
    /\ sc_tracked' = get_tracked_tokens(tracked, is_tracked)
    /\ sc_prices' = <<>>
    /\ sc_i' = 1
    /\ sc_found' = 0
    /\ signals' = <<>>
    /\ sc_threads' = sc_threads + 1
    /\ UNCHANGED <<dsVars, tracked, anVars, tmVars, uiVars, pvVars, mgVars, thVars>>

\* run(), lines 38-54: progress(0, total) and the bulk fetch
RunFetch ==
    /\ sc_pc = "start"
    /\ BulkCall([k \in DOMAIN sc_tracked |-> TOKENS_CONFIG[sc_tracked[k].token_id]],
                dex_keys, BasePrices)
    /\ sc_prices' = last'.result
    /\ signals' = Append(signals, Progress(0, Len(sc_tracked)))
    /\ sc_pc' = "loop"
    /\ UNCHANGED <<now, tracked, sc_tracked, sc_i, sc_found, anVars, tmVars, uiVars, pvVars, mgVars, sc_threads, thVars>>

\* mutant: a token without two prices is left with "continue", before progress
RunToken_ContinueEarly ==
    /\ sc_pc = "loop"
    /\ sc_i <= Len(sc_tracked)
    /\ LET opps == TokenOpps(sc_prices, sc_tracked[sc_i])
           few == Len(ExtractPrices(sc_prices, TOKENS_CONFIG[sc_tracked[sc_i].token_id])) < 2
       IN  /\ sc_found' = sc_found + Len(opps)
           /\ signals' = signals \o [k \in DOMAIN opps |-> Found(opps[k])]
                                 \o (IF few THEN <<>>
                                     ELSE <<Progress(sc_i, Len(sc_tracked))>>)
    /\ sc_i' = sc_i + 1
    /\ UNCHANGED <<dsVars, tracked, sc_pc, sc_tracked, sc_prices, anVars, tmVars, uiVars, pvVars, mgVars, sc_threads, thVars>>

\* run(), lines 57-79: one tracked token
RunToken ==
    /\ sc_pc = "loop"
    /\ sc_i <= Len(sc_tracked)
    /\ LET opps == TokenOpps(sc_prices, sc_tracked[sc_i])
       IN  /\ sc_found' = sc_found + Len(opps)
           /\ signals' = signals \o [k \in DOMAIN opps |-> Found(opps[k])]
                                 \o <<Progress(sc_i, Len(sc_tracked))>>
    /\ sc_i' = sc_i + 1
    /\ UNCHANGED <<dsVars, tracked, sc_pc, sc_tracked, sc_prices, anVars, tmVars, uiVars, pvVars, mgVars, sc_threads, thVars>>

\* mutant: finished carries the number of tokens scanned
RunFinish_TokenCount ==
    /\ sc_pc = "loop"
    /\ sc_i > Len(sc_tracked)
    /\ signals' = Append(signals, Finished(Len(sc_tracked)))
    /\ sc_pc' = "done"
    /\ sc_threads' = sc_threads - 1
    /\ UNCHANGED <<dsVars, tracked, sc_tracked, sc_prices, sc_i, sc_found, anVars,
                   tmVars, uiVars, pvVars, mgVars, thVars>>

\* run(), line 81: finished(opportunities_found)
RunFinish ==
    /\ sc_pc = "loop"
    /\ sc_i > Len(sc_tracked)
    /\ signals' = Append(signals, Finished(sc_found))
    /\ sc_pc' = "done"
    /\ sc_threads' = sc_threads - 1
    /\ UNCHANGED <<dsVars, tracked, sc_tracked, sc_prices, sc_i, sc_found, anVars,
                   tmVars, uiVars, pvVars, mgVars, thVars>>

----------------------------------------------------------------------------
(* ArbitrageAnalyzer *)

\* what db_manager.get_price_for_token can return: <<>> is None
DbPrices == {<<>>} \cup {<<p>> : p \in {0, 1000, 1010, 1020}}

\* min(prices, key=prices.get): the first venue with the least price
MinIndex(dex_list) ==
    CHOOSE i \in DOMAIN dex_list :
        /\ \A j \in DOMAIN dex_list : dex_list[i][2] <= dex_list[j][2]
        /\ \A j \in 1..(i - 1) : dex_list[j][2] > dex_list[i][2]

\* max(prices, key=prices.get): the first venue with the greatest price
MaxIndex(dex_list) ==
    CHOOSE i \in DOMAIN dex_list :
        /\ \A j \in DOMAIN dex_list : dex_list[i][2] >= dex_list[j][2]
        /\ \A j \in 1..(i - 1) : dex_list[j][2] < dex_list[i][2]

\* mutant: the spread has to exceed the threshold
analyze_price_spread_Strict(token, dex_list, threshold) ==
    LET min_dex == dex_list[MinIndex(dex_list)]
        max_dex == dex_list[MaxIndex(dex_list)]
        profit_percent == Rat((max_dex[2] - min_dex[2]) * 100, min_dex[2])
    IN  IF RatGT(profit_percent, Rat(threshold, 1))
        THEN <<[token |-> token,
                buy_dex |-> min_dex[1], buy_price |-> min_dex[2],
                sell_dex |-> max_dex[1], sell_price |-> max_dex[2],
                profit_percent |-> profit_percent]>>
        ELSE <<>>

\* ArbitrageAnalyzer._analyze_price_spread(token, prices): <<>> is None
analyze_price_spread(token, dex_list, threshold) ==
    LET min_dex == dex_list[MinIndex(dex_list)]
        max_dex == dex_list[MaxIndex(dex_list)]
        profit_percent == Rat((max_dex[2] - min_dex[2]) * 100, min_dex[2])
    IN  IF RatGE(profit_percent, Rat(threshold, 1))
        THEN <<[token |-> token,
                buy_dex |-> min_dex[1], buy_price |-> min_dex[2],
                sell_dex |-> max_dex[1], sell_price |-> max_dex[2],
                profit_percent |-> profit_percent]>>
        ELSE <<>>

\* find_opportunities, lines 56-63: the venues with a price > 0
PositivePrices(db) ==
    LET have == SelectSeq(dex_keys, LAMBDA d : db[d] # <<>> /\ db[d][1] > 0)
    IN  [k \in DOMAIN have |-> <<have[k], db[have[k]][1]>>]

\* find_opportunities, lines 65-69: the opportunities of one token
AnalyzerOpps(token, db, threshold) ==
    LET prices == PositivePrices(db)
    IN  IF Len(prices) >= 2 THEN analyze_price_spread(token, prices, threshold)
        ELSE <<>>

\* ArbitrageAnalyzer(db_manager, threshold).find_opportunities(...) is called
AnalyzerStart ==
    /\ TkOnly
    /\ an_pc \in {"idle", "done"}
    /\ \E threshold \in ThresholdValues : an_threshold' = threshold
    /\ an_pc' = "loop"
    /\ an_i' = 1
    /\ an_prices' = <<>>
    /\ an_opps' = <<>>
    /\ UNCHANGED <<dsVars, tracked, scVars, tmVars, uiVars, pvVars, mgVars, sc_threads, thVars>>

\* find_opportunities, lines 56-69: one token
AnalyzerToken ==
    /\ an_pc = "loop"
    /\ an_i \in TokenIds
    /\ \E db \in [Dexes -> DbPrices] :
          /\ an_prices' = db
          /\ an_opps' = an_opps \o AnalyzerOpps(TOKENS_CONFIG[an_i], db, an_threshold)
    /\ an_i' = an_i + 1
    /\ UNCHANGED <<dsVars, tracked, scVars, an_pc, an_threshold, tmVars, uiVars, pvVars, mgVars, sc_threads, thVars>>

\* find_opportunities, line 71: return opportunities
AnalyzerReturn ==
    /\ an_pc = "loop"
    /\ an_i \notin TokenIds
    /\ an_pc' = "done"
    /\ UNCHANGED <<dsVars, tracked, scVars, an_threshold, an_i, an_prices, an_opps, tmVars, uiVars, pvVars, mgVars, sc_threads, thVars>>

----------------------------------------------------------------------------
(* user_preferences, ThemeManager and the window state of MainWindow *)

\* Config.DEFAULT_THEME
DEFAULT_THEME == "dark"

Themes == {"dark", "light"}

\* keys and values of direct set_preference / get_preference calls
PrefKeys == {"theme", "window_width", "language"}
PrefValues == {"light", "800"}

\* window geometry and tab index at the time of save_window_state
WindowWidths == {800, 1200}
TabIndexes == {0, 1}

\* mutant: a plain INSERT, the row of the key is kept
set_preference_Insert(rows, key, value) == Append(rows, [key |-> key, value |-> value])

\* DatabaseManager.set_preference: INSERT OR REPLACE on the UNIQUE key
set_preference(rows, key, value) ==
    Append(SelectSeq(rows, LAMBDA r : r.key # key), [key |-> key, value |-> value])

\* DatabaseManager.get_preference(key, default): <<value>>, default when no row
get_preference(rows, key, default) ==
    LET found == SelectSeq(rows, LAMBDA r : r.key = key)
    IN  IF found # <<>> THEN <<found[1].value>> ELSE default

\* ThemeManager.load_qss: whether the stylesheet file gives a non-empty text
QssLoaded == BOOLEAN

\* ThemeManager.apply_theme(theme_name) when load_qss gives qss
apply_theme(rows, theme, theme_name, qss) ==
    LET name == IF theme_name \in Themes THEN theme_name ELSE "dark"
    IN  IF qss
        THEN [current_theme |-> name, prefs |-> set_preference(rows, "theme", name)]
        ELSE [current_theme |-> theme, prefs |-> rows]

\* ThemeManager.toggle_theme: the new state and the returned theme name
toggle_theme(rows, theme, qss) ==
    LET new_theme == IF theme = "dark" THEN "light" ELSE "dark"
        r == apply_theme(rows, theme, new_theme, qss)
    IN  [current_theme |-> r.current_theme, prefs |-> r.prefs, ret |-> new_theme]

\* MainWindow.save_window_state with the given geometry and tab
save_window_state(rows, width, tab) ==
    LET r1 == set_preference(rows, "window_width", ToString(width))
        r2 == set_preference(r1, "window_height", ToString(600))
        r3 == set_preference(r2, "window_x", ToString(0))
        r4 == set_preference(r3, "window_y", ToString(0))
    IN  set_preference(r4, "last_tab_index", ToString(tab))

NoPfCall ==
    [op |-> "none", key |-> "", value |-> "", ret |-> <<>>, pre |-> <<>>,
     pre_theme |-> "", pre_theme2 |-> ""]

\* DatabaseManager.set_preference called directly
SetPreference ==
    /\ \E key \in PrefKeys, value \in PrefValues :
          /\ prefs' = set_preference(prefs, key, value)
          /\ pf_last' = [op |-> "set_preference", key |-> key, value |-> value,
                         ret |-> <<>>, pre |-> prefs, pre_theme |-> current_theme,
                         pre_theme2 |-> ""]
    /\ UNCHANGED <<dsVars, tracked, scVars, anVars, tmVars, current_theme, theme_btn, pvVars, mgVars, sc_threads, thVars>>

\* DatabaseManager.get_preference called directly, without a default
GetPreference ==
    /\ \E key \in PrefKeys \cup {"last_tab_index"} :
          pf_last' = [op |-> "get_preference", key |-> key, value |-> "",
                      ret |-> get_preference(prefs, key, <<>>), pre |-> prefs,
                      pre_theme |-> current_theme, pre_theme2 |-> ""]
    /\ UNCHANGED <<dsVars, tracked, scVars, anVars, tmVars, prefs, current_theme,
                   theme_btn, pvVars, mgVars, sc_threads, thVars>>

\* MainWindow.on_theme_toggle
OnThemeToggle ==
    /\ \E qss \in QssLoaded :
          LET r == toggle_theme(prefs, current_theme, qss)
          IN  /\ current_theme' = r.current_theme
              /\ prefs' = r.prefs
              /\ theme_btn' = r.ret
              /\ pf_last' = [op |-> "on_theme_toggle", key |-> "theme", value |-> "",
                             ret |-> <<r.ret>>, pre |-> prefs,
                             pre_theme |-> current_theme,
                             pre_theme2 |-> IF pf_last.op = "on_theme_toggle"
                                            THEN pf_last.pre_theme ELSE ""]
    /\ UNCHANGED <<dsVars, tracked, scVars, anVars, tmVars, pvVars, mgVars, sc_threads, thVars>>

\* MainWindow.save_window_state
SaveWindowState ==
    /\ \E width \in WindowWidths, tab \in TabIndexes :
          /\ prefs' = save_window_state(prefs, width, tab)
          /\ pf_last' = [op |-> "save_window_state", key |-> "", value |-> "",
                         ret |-> <<>>, pre |-> prefs, pre_theme |-> current_theme,
                         pre_theme2 |-> ""]
    /\ UNCHANGED <<dsVars, tracked, scVars, anVars, tmVars, current_theme, theme_btn, pvVars, mgVars, sc_threads, thVars>>

----------------------------------------------------------------------------
(* Direct calls of the provider, of get_all_dex_prices and of the venue    *)
(* price simulator                                                         *)

\* a symbol without an entry in SYMBOL_TO_ID
UnlistedSymbol == "UNLISTED"

NoPvCall ==
    [op |-> "none", symbols |-> <<>>, status |-> "none", data |-> <<>>,
     requests |-> <<>>, result |-> <<>>]

\* CoinGeckoProvider.get_multiple_prices called directly
GetMultiplePrices ==
    /\ \E token_symbols \in SeqsUpTo(Symbols \cup {UnlistedSymbol}, MaxSymbols) :
       \E answer \in Answers(token_symbols, BasePrices) :
          LET requests == multiple_requests(token_symbols)
              sent == requests # <<>>
          IN  pv_last' = [op |-> "get_multiple_prices", symbols |-> token_symbols,
                          status |-> IF sent THEN answer.status ELSE "none",
                          data |-> IF sent THEN answer.data ELSE <<>>,
                          requests |-> requests,
                          result |-> get_multiple_prices(token_symbols, answer, now)]
    /\ UNCHANGED <<dsVars, tracked, scVars, anVars, tmVars, uiVars, gp_last, mgVars, sc_threads, thVars>>

\* DataService.get_all_dex_prices(symbol): get_token_price for each venue in
\* turn, answers[k] and variations[k] being the upstream answer and the drawn
\* variation of the k-th venue
RECURSIVE get_all_dex_prices(_, _, _, _, _, _)
get_all_dex_prices(c, symbol, dexes, answers, variations, t) ==
    IF dexes = <<>> THEN [cache |-> c, requests |-> <<>>, result |-> <<>>]
    ELSE LET n == Len(dexes)
             front == get_all_dex_prices(c, symbol, SubSeq(dexes, 1, n - 1),
                                         answers, variations, t)
             r == get_token_price(front.cache, symbol, dexes[n], answers[n],
                                  variations[n], t)
         IN  [cache |-> r.cache,
              requests |-> front.requests \o r.requests,
              result |-> IF r.result = <<>> THEN front.result
                         ELSE [d \in DOMAIN front.result \cup {dexes[n]} |->
                                  IF d = dexes[n] THEN r.result[1]
                                  ELSE front.result[d]]]

\* the answers to a request for the one id of symbol: the id or nothing
SingleAnswers(symbol) ==
    {a \in Answers(<<symbol>>, QuotedPrices) : DOMAIN a.data \subseteq {SYMBOL_TO_ID(symbol)}}

\* DataService.get_all_dex_prices called directly
GetAllDexPrices ==
    /\ last.op = "none"
    /\ \E symbol \in Symbols :
       \E answers \in [DOMAIN dex_keys -> SingleAnswers(symbol)],
          variations \in [DOMAIN dex_keys -> Variations] :
          LET r == get_all_dex_prices(cache, symbol, dex_keys, answers, variations, now)
          IN  /\ cache' = r.cache
              /\ last' = [op |-> "all", symbols |-> <<symbol>>, dexes |-> dex_keys,
                          time |-> now, pre |-> cache, requests |-> r.requests,
                          result |-> (symbol :> r.result)]
    /\ UNCHANGED <<now, tracked, scVars, anVars, tmVars, uiVars, pvVars, mgVars, sc_threads, thVars>>

\* base prices of the simulator, in millionths of a dollar
SimulatedBases == {1, 8, 30, 400, 1000, 250000, 1000000}

\* percentage thresholds of the simulated token
SimulatedThresholds == {2, 3}

NoGen == [base |-> 0, variation |-> <<>>, prices |-> <<>>, row |-> <<>>, opps |-> <<>>]

\* step 3 of get_bulk_prices_all_dexes for one fetched symbol, and the scan of
\* the generated prices by find_opportunities
GeneratePrices ==
    /\ \E base \in SimulatedBases, variation \in [Dexes -> Variations],
          value \in SimulatedThresholds :
          LET prices == [d \in Dexes |->
                            generate_dex_price([price_usd |-> base, last_updated |-> now],
                                               d, variation[d])]
              row == [token_id |-> 1, threshold_value |-> value,
                      threshold_mode |-> "percentage"]
          IN  gp_last' = [base |-> base, variation |-> variation, prices |-> prices,
                          row |-> row,
                          opps |-> TokenOpps((TOKENS_CONFIG[1] :> prices), row)]
    /\ UNCHANGED <<dsVars, tracked, scVars, anVars, tmVars, uiVars, pv_last, mgVars, sc_threads, thVars>>

----------------------------------------------------------------------------
(* ArbitrageTable and its scanner thread.  A signal emitted by the thread  *)
(* is queued for the GUI thread; its slot runs later.  progress has no     *)
(* slot connected.  No code requests the interruption of a scanner thread. *)

\* signals of one scan that may wait for their slots while a next scan starts
MaxPending == 3

\* the ways scan_opportunities is called: on_scan_clicked, the scan_timer
\* timeout (toggle_auto_scan starts the timer and calls it as well) and
\* scan_now (MainWindow.on_scan)
ScanKinds == {"click", "timer", "scan_now"}

Errored == [sig |-> "error", a |-> 0, b |-> 0, opp |-> NoOpp]

\* QThread.isRunning: from start() until run() has returned
isRunning(pc) == pc \in {"start", "loop"}

\* mutant: a request is never turned away
scan_blocked_Never(pc) == FALSE

\* scan_opportunities, line 99: self.scanner_thread and
\* self.scanner_thread.isRunning()
scan_blocked(pc) == pc # "idle" /\ isRunning(pc)

\* the signals with a slot connected
Connected(sigs) == SelectSeq(sigs, LAMBDA s : s.sig # "progress")

\* the signals waiting for their slots, oldest first
Pending(stale, sigs, delivered) ==
    stale \o SubSeq(Connected(sigs), delivered + 1, Len(Connected(sigs)))

NoRequest == [kind |-> "", outcome |-> ""]

\* ArbitrageTable.scan_opportunities, called in any of the ways.  A session
\* of the model works in one tab: the two tables share only the DataService
ScanRequest ==
    /\ QtOnly
    /\ fw_last = NoRequest
    /\ \E kind \in ScanKinds :
          /\ kind = "click" => scan_btn
          /\ IF scan_blocked(sc_pc)
             THEN /\ wd_last' = [kind |-> kind, outcome |-> "ignored"]
                  /\ UNCHANGED <<scVars, sc_threads, scan_btn, status_label,
                                 opportunities, table_rows, wd_delivered, wd_stale>>
             ELSE IF get_tracked_tokens(tracked, is_tracked) = <<>>
             THEN /\ status_label' = <<"No tracked tokens">>
                  /\ wd_last' = [kind |-> kind, outcome |-> "no_tokens"]
                  /\ UNCHANGED <<scVars, sc_threads, scan_btn, opportunities,
                                 table_rows, wd_delivered, wd_stale>>
             ELSE /\ Len(Pending(wd_stale, signals, wd_delivered)) <= MaxPending
                  /\ scan_btn' = FALSE
                  /\ status_label' = <<"Scanning...">>
                  /\ opportunities' = <<>>
                  /\ table_rows' = 0
                  /\ wd_stale' = Pending(wd_stale, signals, wd_delivered)
                  /\ wd_delivered' = 0
                  /\ sc_pc' = "start"
                  /\ sc_tracked' = get_tracked_tokens(tracked, is_tracked)
                  /\ sc_prices' = <<>>
                  /\ sc_i' = 1
                  /\ sc_found' = 0
                  /\ signals' = <<>>
                  /\ sc_threads' = sc_threads + 1
                  /\ wd_last' = [kind |-> kind, outcome |-> "started"]
    /\ UNCHANGED <<dsVars, tracked, anVars, tmVars, uiVars, pvVars, mgVars, ftVars, fwVars>>

\* run(), lines 83-84: an exception raised by the bulk fetch (after
\* progress(0, total)) or while a token is handled; error is emitted
RunError ==
    /\ \/ /\ sc_pc = "start"
          /\ signals' = signals \o <<Progress(0, Len(sc_tracked)), Errored>>
       \/ /\ sc_pc = "loop"
          /\ sc_i <= Len(sc_tracked)
          /\ signals' = Append(signals, Errored)
    /\ sc_pc' = "failed"
    /\ sc_threads' = sc_threads - 1
    /\ UNCHANGED <<dsVars, tracked, sc_tracked, sc_prices, sc_i, sc_found, anVars,
                   tmVars, uiVars, pvVars, mgVars, thVars>>

\* the signal whose slot runs next
NextSignal == Pending(wd_stale, signals, wd_delivered)[1]

\* the GUI thread takes the oldest waiting signal
TakeSignal ==
    /\ Pending(wd_stale, signals, wd_delivered) # <<>>
    /\ IF wd_stale # <<>>
       THEN wd_stale' = Tail(wd_stale) /\ UNCHANGED wd_delivered
       ELSE wd_delivered' = wd_delivered + 1 /\ UNCHANGED wd_stale

\* ArbitrageTable.on_opportunity_found
OnOpportunityFound ==
    /\ TakeSignal
    /\ NextSignal.sig = "opportunity_found"
    /\ opportunities' = Append(opportunities, NextSignal.opp)
    /\ table_rows' = table_rows + 1
    /\ UNCHANGED <<dsVars, tracked, scVars, anVars, tmVars, uiVars, pvVars, mgVars,
                   sc_threads, scan_btn, status_label, wd_last, ftVars, fwVars>>

\* ArbitrageTable.on_scan_complete
OnScanComplete ==
    /\ TakeSignal
    /\ NextSignal.sig = "finished"
    /\ scan_btn' = TRUE
    /\ status_label' = <<"Found", NextSignal.a>>
    /\ UNCHANGED <<dsVars, tracked, scVars, anVars, tmVars, uiVars, pvVars, mgVars,
                   sc_threads, opportunities, table_rows, wd_last, ftVars, fwVars>>

\* mutant: the scan button stays disabled after an error
OnScanError_KeepDisabled ==
    /\ TakeSignal
    /\ NextSignal.sig = "error"
    /\ status_label' = <<"Error scanning">>
    /\ UNCHANGED <<dsVars, tracked, scVars, anVars, tmVars, uiVars, pvVars, mgVars,
                   sc_threads, scan_btn, opportunities, table_rows, wd_last, ftVars,
                   fwVars>>

\* ArbitrageTable.on_scan_error
OnScanError ==
    /\ TakeSignal
    /\ NextSignal.sig = "error"
    /\ scan_btn' = TRUE
    /\ status_label' = <<"Error scanning">>
    /\ UNCHANGED <<dsVars, tracked, scVars, anVars, tmVars, uiVars, pvVars, mgVars,
                   sc_threads, opportunities, table_rows, wd_last, ftVars, fwVars>>

----------------------------------------------------------------------------
(* CurrentPricesTable and its fetcher thread *)

\* the signals of PriceFetcherThread; data is <<price_data>>
FtProgress(current, total) ==
    [sig |-> "progress", symbol |-> "", dex |-> "", data |-> <<>>, a |-> current, b |-> total]
FtPrice(symbol, dex_key, price_data) ==
    [sig |-> "price_fetched", symbol |-> symbol, dex |-> dex_key,
     data |-> <<price_data>>, a |-> 0, b |-> 0]
FtError == [sig |-> "error", symbol |-> "", dex |-> "", data |-> <<>>, a |-> 0, b |-> 0]
FtFinished == [sig |-> "finished", symbol |-> "", dex |-> "", data |-> <<>>, a |-> 0, b |-> 0]

\* the symbols of the tracked tokens, in get_tracked_tokens order
TrackedSymbols(rows, flags) ==
    LET t == get_tracked_tokens(rows, flags)
    IN  [k \in DOMAIN t |-> TOKENS_CONFIG[t[k].token_id]]

\* run(), lines 63-70: the emissions for one token over the first k venues,
\* current being the count before this token
RECURSIVE EmitToken(_, _, _, _, _)
EmitToken(all_prices, symbol, k, current, total) ==
    IF k = 0 \/ symbol \notin DOMAIN all_prices THEN <<>>
    ELSE EmitToken(all_prices, symbol, k - 1, current, total)
            \o (IF dex_keys[k] \in DOMAIN all_prices[symbol]
                THEN <<FtPrice(symbol, dex_keys[k], all_prices[symbol][dex_keys[k]])>>
                ELSE <<>>)
            \o <<FtProgress(current + k, total)>>

\* run(): current, from the progress signals emitted after progress(0, 1)
Current(sigs) == Cardinality({k \in DOMAIN sigs : sigs[k].sig = "progress"}) - 1

\* PriceFetcherThread(tokens, data_service).start() when no fetch runs
StartFetcher ==
    /\ ~isRunning(ft_pc)
    /\ TrackedSymbols(tracked, is_tracked) # <<>>
    /\ ft_pc' = "start"
    /\ ft_tokens' = TrackedSymbols(tracked, is_tracked)
    /\ ft_prices' = <<>>
    /\ ft_i' = 1
    /\ ft_signals' = <<>>
    /\ ft_interrupt' = FALSE
    /\ ft_threads' = ft_threads + 1
    /\ UNCHANGED <<dsVars, tracked, scVars, anVars, tmVars, uiVars, pvVars, mgVars,
                   sc_threads, wdVars, fwVars>>

\* QThread.requestInterruption on the running fetcher thread (no code of
\* the repository calls it)
RequestInterruption ==
    /\ isRunning(ft_pc)
    /\ ~ft_interrupt
    /\ ft_interrupt' = TRUE
    /\ UNCHANGED <<dsVars, tracked, scVars, anVars, tmVars, uiVars, pvVars, mgVars,
                   sc_threads, wdVars, ft_pc, ft_tokens, ft_prices, ft_i, ft_signals,
                   ft_threads, fwVars>>

\* run(), lines 40-41 and 59-60 with the finally clause: the thread returns
\* when its interruption has been requested
FetchInterrupted ==
    /\ isRunning(ft_pc)
    /\ ft_pc = "loop" => ft_i <= Len(ft_tokens)
    /\ ft_interrupt
    /\ ft_signals' = Append(ft_signals, FtFinished)
    /\ ft_pc' = "done"
    /\ ft_threads' = ft_threads - 1
    /\ UNCHANGED <<dsVars, tracked, scVars, anVars, tmVars, uiVars, pvVars, mgVars,
                   sc_threads, wdVars, ft_tokens, ft_prices, ft_i, ft_interrupt, fwVars>>

\* run(), lines 44-56: progress(0, 1) and the bulk fetch
FetchBegin ==
    /\ ft_pc = "start"
    /\ ~ft_interrupt
    /\ BulkCall(ft_tokens, dex_keys, BasePrices)
    /\ ft_prices' = last'.result
    /\ ft_signals' = Append(ft_signals, FtProgress(0, 1))
    /\ ft_pc' = "loop"
    /\ UNCHANGED <<now, tracked, scVars, anVars, tmVars, uiVars, pvVars, mgVars,
                   sc_threads, wdVars, ft_tokens, ft_i, ft_interrupt, ft_threads, fwVars>>

\* mutant: a price is emitted for every venue, cached or not
FetchToken_EveryVenue ==
    /\ ft_pc = "loop"
    /\ ft_i <= Len(ft_tokens)
    /\ ~ft_interrupt
    /\ ft_signals' = ft_signals \o
           [k \in DOMAIN dex_keys |->
               FtPrice(ft_tokens[ft_i], dex_keys[k], [price_usd |-> 0, last_updated |-> 0])]
    /\ ft_i' = ft_i + 1
    /\ UNCHANGED <<dsVars, tracked, scVars, anVars, tmVars, uiVars, pvVars, mgVars,
                   sc_threads, wdVars, ft_pc, ft_tokens, ft_prices, ft_interrupt,
                   ft_threads, fwVars>>

\* run(), lines 58-70: one token
FetchToken ==
    /\ ft_pc = "loop"
    /\ ft_i <= Len(ft_tokens)
    /\ ~ft_interrupt
    /\ ft_signals' = ft_signals \o
           EmitToken(ft_prices, ft_tokens[ft_i], Len(dex_keys), Current(ft_signals),
                     Len(ft_tokens) * Len(dex_keys))
    /\ ft_i' = ft_i + 1
    /\ UNCHANGED <<dsVars, tracked, scVars, anVars, tmVars, uiVars, pvVars, mgVars,
                   sc_threads, wdVars, ft_pc, ft_tokens, ft_prices, ft_interrupt,
                   ft_threads, fwVars>>

\* run(), lines 74-75 after the loop: finished
FetchEnd ==
    /\ ft_pc = "loop"
    /\ ft_i > Len(ft_tokens)
    /\ ft_signals' = Append(ft_signals, FtFinished)
    /\ ft_pc' = "done"
    /\ ft_threads' = ft_threads - 1
    /\ UNCHANGED <<dsVars, tracked, scVars, anVars, tmVars, uiVars, pvVars, mgVars,
                   sc_threads, wdVars, ft_tokens, ft_prices, ft_i, ft_interrupt, fwVars>>

\* run(), lines 72-75: an exception raised by the bulk fetch (after
\* progress(0, 1)) or while a token is handled; error, then finished
FetchError ==
    /\ ~ft_interrupt
    /\ \/ /\ ft_pc = "start"
          /\ ft_signals' = ft_signals \o <<FtProgress(0, 1), FtError, FtFinished>>
       \/ /\ ft_pc = "loop"
          /\ ft_i <= Len(ft_tokens)
          /\ ft_signals' = ft_signals \o <<FtError, FtFinished>>
    /\ ft_pc' = "done"
    /\ ft_threads' = ft_threads - 1
    /\ UNCHANGED <<dsVars, tracked, scVars, anVars, tmVars, uiVars, pvVars, mgVars,
                   sc_threads, wdVars, ft_tokens, ft_prices, ft_i, ft_interrupt, fwVars>>

\* the ways refresh_prices is called: on_refresh_clicked and the
\* refresh_timer timeout (toggle_auto_refresh starts the timer and calls it)
RefreshKinds == {"click", "timer"}

\* refresh_prices, line 105: self.fetcher_thread and
\* self.fetcher_thread.isRunning()
refresh_blocked(pc) == pc # "idle" /\ isRunning(pc)

\* CurrentPricesTable.on_refresh_clicked and refresh_prices
RefreshRequest ==
    /\ wd_last = NoRequest
    /\ sc_pc = "idle"
    /\ \E kind \in RefreshKinds :
          /\ kind = "click" => refresh_btn
          /\ IF kind = "click" /\ get_tracked_tokens(tracked, is_tracked) = <<>>
             THEN /\ fw_status' = <<"No tracked tokens">>
                  /\ fw_last' = [kind |-> kind, outcome |-> "no_tokens"]
                  /\ UNCHANGED <<ftVars, refresh_btn, prices_cache, fw_rows,
                                 fw_delivered, fw_stale>>
             ELSE IF refresh_blocked(ft_pc)
             THEN /\ fw_last' = [kind |-> kind, outcome |-> "ignored"]
                  /\ UNCHANGED <<ftVars, refresh_btn, fw_status, prices_cache, fw_rows,
                                 fw_delivered, fw_stale>>
             ELSE IF TrackedSymbols(tracked, is_tracked) = <<>>
             THEN /\ fw_last' = [kind |-> kind, outcome |-> "no_tokens"]
                  /\ UNCHANGED <<ftVars, refresh_btn, fw_status, prices_cache, fw_rows,
                                 fw_delivered, fw_stale>>
             ELSE /\ Len(Pending(fw_stale, ft_signals, fw_delivered)) <= MaxPending
                  /\ refresh_btn' = FALSE
                  /\ fw_status' = <<"Fetching prices...">>
                  /\ prices_cache' = <<>>
                  /\ fw_stale' = Pending(fw_stale, ft_signals, fw_delivered)
                  /\ fw_delivered' = 0
                  /\ ft_pc' = "start"
                  /\ ft_tokens' = TrackedSymbols(tracked, is_tracked)
                  /\ ft_prices' = <<>>
                  /\ ft_i' = 1
                  /\ ft_signals' = <<>>
                  /\ ft_interrupt' = FALSE
                  /\ ft_threads' = ft_threads + 1
                  /\ fw_last' = [kind |-> kind, outcome |-> "started"]
                  /\ UNCHANGED fw_rows
    /\ UNCHANGED <<dsVars, tracked, scVars, anVars, tmVars, uiVars, pvVars, mgVars,
                   sc_threads, wdVars>>

\* the fetcher's signal whose slot runs next
NextFetched == Pending(fw_stale, ft_signals, fw_delivered)[1]

\* the GUI thread takes the oldest waiting signal of the fetcher
TakeFetched ==
    /\ Pending(fw_stale, ft_signals, fw_delivered) # <<>>
    /\ IF fw_stale # <<>>
       THEN fw_stale' = Tail(fw_stale) /\ UNCHANGED fw_delivered
       ELSE fw_delivered' = fw_delivered + 1 /\ UNCHANGED fw_stale

\* prices_cache[symbol][dex_key] = price
CachePut(pc, symbol, dex_key, price) ==
    [x \in DOMAIN pc \cup {symbol} |->
        [d \in (IF x \in DOMAIN pc THEN DOMAIN pc[x] ELSE {})
                  \cup (IF x = symbol THEN {dex_key} ELSE {}) |->
            IF x = symbol /\ d = dex_key THEN price ELSE pc[x][d]]]

\* CurrentPricesTable.on_price_received
OnPriceReceived ==
    /\ TakeFetched
    /\ NextFetched.sig = "price_fetched"
    /\ prices_cache' = CachePut(prices_cache, NextFetched.symbol, NextFetched.dex,
                                NextFetched.data[1].price_usd)
    /\ UNCHANGED <<dsVars, tracked, scVars, anVars, tmVars, uiVars, pvVars, mgVars,
                   sc_threads, wdVars, ftVars, refresh_btn, fw_status, fw_rows, fw_last>>

\* CurrentPricesTable.on_fetch_complete, with update_table
OnFetchComplete ==
    /\ TakeFetched
    /\ NextFetched.sig = "finished"
    /\ fw_rows' = SelectSeq(TrackedSymbols(tracked, is_tracked),
                            LAMBDA x : x \in DOMAIN prices_cache)
    /\ refresh_btn' = TRUE
    /\ fw_status' = IF DOMAIN prices_cache = {} THEN <<"No prices fetched">>
                    ELSE <<"Updated", Cardinality(DOMAIN prices_cache)>>
    /\ UNCHANGED <<dsVars, tracked, scVars, anVars, tmVars, uiVars, pvVars, mgVars,
                   sc_threads, wdVars, ftVars, prices_cache, fw_last>>

\* CurrentPricesTable.on_fetch_error
OnFetchError ==
    /\ TakeFetched
    /\ NextFetched.sig = "error"
    /\ refresh_btn' = TRUE
    /\ fw_status' = <<"Error fetching prices">>
    /\ UNCHANGED <<dsVars, tracked, scVars, anVars, tmVars, uiVars, pvVars, mgVars,
                   sc_threads, wdVars, ftVars, prices_cache, fw_rows, fw_last>>

----------------------------------------------------------------------------
(* MigrationManager: the tokens table is DOMAIN is_tracked                 *)

\* program starts in one behaviour
MaxMigrations == 3

\* MigrationManager.seed_tokens on an empty tokens table: the tokens of
\* Config.TOKENS_CONFIG get the ids 1, 2, ... and is_tracked = 0
seed_tokens(flags) == [t \in TokenIds |-> IF t \in DOMAIN flags THEN flags[t] ELSE FALSE]

\* MigrationManager._set_default_preferences
set_default_preferences(rows) ==
    LET r1 == IF get_preference(rows, "theme", <<>>) = <<>>
              THEN set_preference(rows, "theme", DEFAULT_THEME) ELSE rows
    IN  IF get_preference(r1, "auto_refresh", <<>>) = <<>>
        THEN set_preference(r1, "auto_refresh", "false") ELSE r1

\* mutant: the tokens are seeded again whatever the table holds
run_migrations_Reseed(flags, rows) ==
    [flags |-> [t \in TokenIds |-> FALSE], prefs |-> set_default_preferences(rows)]

\* MigrationManager.run_migrations: the is_tracked flags and the preferences
run_migrations(flags, rows) ==
    [flags |-> IF DOMAIN flags = {} THEN seed_tokens(flags) ELSE flags,
     prefs |-> set_default_preferences(rows)]

\* main() has created the tables and run the migrations once; had_rows and
\* had_theme tell what the run found: tracked_tokens rows, the saved theme
NoMigration == [runs |-> 1, had_rows |-> FALSE, had_theme |-> <<>>]

\* main(): DatabaseManager() and MigrationManager.run_migrations
RunMigrations ==
    /\ mg_last.runs < MaxMigrations
    /\ LET r == run_migrations(is_tracked, prefs)
       IN  /\ is_tracked' = r.flags
           /\ prefs' = r.prefs
    /\ mg_last' = [runs |-> mg_last.runs + 1, had_rows |-> tracked # <<>>,
                   had_theme |-> get_preference(prefs, "theme", <<>>)]
    /\ UNCHANGED <<dsVars, tracked, scVars, anVars, tm_last, current_theme,
                   theme_btn, pf_last, pvVars, sc_threads, thVars>>

\* the window is created after the migrations have run
Migrated == mg_last.runs >= 1

\* a tracking or threshold change made through the window: one call of
\* add_token_to_tracked, update_token_threshold or remove_token_from_tracked
TrackingChange ==
    /\ Migrated
    /\ \E token_id \in TokenIds \cup {UnseededId}, value \in ThresholdArgs, mode \in ModeArgs :
          \E r \in {add_token_to_tracked(tracked, is_tracked, token_id, value, mode),
                    update_token_threshold(tracked, is_tracked, token_id, value, mode),
                    remove_token_from_tracked(tracked, is_tracked, token_id)} :
             /\ tracked' = r.rows
             /\ is_tracked' = r.flags
    /\ UNCHANGED <<dsVars, scVars, anVars, tm_last, uiVars, pvVars, mgVars, sc_threads, thVars>>

\* a theme change made through the window: MainWindow.on_theme_toggle
ThemeChange ==
    /\ Migrated
    /\ \E qss \in QssLoaded :
          LET r == toggle_theme(prefs, current_theme, qss)
          IN  /\ current_theme' = r.current_theme
              /\ prefs' = r.prefs
              /\ theme_btn' = r.ret
    /\ UNCHANGED <<dsVars, tracked, scVars, anVars, tmVars, pf_last, pvVars, mgVars, sc_threads, thVars>>

----------------------------------------------------------------------------
(* Specifications *)

\* Config.DEFAULT_THRESHOLD, Config.DEFAULT_THRESHOLD_MODE
DEFAULT_THRESHOLD == 1
DEFAULT_THRESHOLD_MODE == "percentage"

\* every modelled token tracked with the default threshold, latest first
InitTracked ==
    [k \in TokenIds |->
        [token_id |-> Cardinality(TokenIds) + 1 - k,
         threshold_value |-> DEFAULT_THRESHOLD,
         threshold_mode |-> DEFAULT_THRESHOLD_MODE]]

\* the widgets after MainWindow.__init__: no thread has been created
InitWidgets ==
    /\ sc_threads = 0
    /\ scan_btn = TRUE
    /\ status_label = <<"Ready">>
    /\ opportunities = <<>>
    /\ table_rows = 0
    /\ wd_delivered = 0
    /\ wd_stale = <<>>
    /\ wd_last = NoRequest
    /\ ft_pc = "idle"
    /\ ft_tokens = <<>>
    /\ ft_prices = <<>>
    /\ ft_i = 1
    /\ ft_signals = <<>>
    /\ ft_interrupt = FALSE
    /\ ft_threads = 0
    /\ refresh_btn = TRUE
    /\ fw_status = <<"Ready">>
    /\ prices_cache = <<>>
    /\ fw_rows = <<>>
    /\ fw_delivered = 0
    /\ fw_stale = <<>>
    /\ fw_last = NoRequest

Init ==
    /\ now = 0
    /\ cache = <<>>
    /\ last = NoCall
    /\ tracked = InitTracked
    /\ sc_pc = "idle"
    /\ sc_tracked = <<>>
    /\ sc_prices = <<>>
    /\ sc_i = 1
    /\ sc_found = 0
    /\ signals = <<>>
    /\ an_pc = "idle"
    /\ an_threshold = DEFAULT_THRESHOLD
    /\ an_i = 1
    /\ an_prices = <<>>
    /\ an_opps = <<>>
    /\ is_tracked = [t \in TokenIds |-> TRUE]
    /\ tm_last = NoTmCall
    /\ prefs = <<[key |-> "theme", value |-> DEFAULT_THEME],
                 [key |-> "auto_refresh", value |-> "false"]>>
    /\ current_theme = DEFAULT_THEME
    /\ theme_btn = "dark"
    /\ pf_last = NoPfCall
    /\ pv_last = NoPvCall
    /\ gp_last = NoGen
    /\ mg_last = NoMigration
    /\ InitWidgets

\* scans of the Qt application, runs of the analyzer
Next ==
    \/ UpdateTokenThreshold
    \/ ScanOpportunities
    \/ RunFetch
    \/ RunToken
    \/ RunFinish
    \/ AnalyzerStart
    \/ AnalyzerToken
    \/ AnalyzerReturn

Spec == Init /\ [][Next]_vars

\* the price cache under direct calls of DataService while time passes
NextCache ==
    \/ Tick
    \/ GetBulk
    \/ GetTokenPrice
    \/ Return

SpecCache == Init /\ [][NextCache]_vars

\* TokenManager called with any arguments
NextTokens ==
    \/ AddTokenToTracked
    \/ TmUpdateTokenThreshold
    \/ RemoveTokenFromTracked

SpecTokens == Init /\ [][NextTokens]_vars

\* DatabaseManager called on the seeded tokens
NextDb ==
    \/ DbAddTrackedToken
    \/ DbRemoveTrackedToken
    \/ DbUpdateTokenThreshold
    \/ DbClearAllData

SpecDb == Init /\ [][NextDb]_vars

\* preferences, theme toggles and window state
NextPrefs ==
    \/ SetPreference
    \/ GetPreference
    \/ OnThemeToggle
    \/ SaveWindowState

SpecPrefs == Init /\ [][NextPrefs]_vars

\* direct calls of CoinGeckoProvider.get_multiple_prices
NextProvider == GetMultiplePrices

SpecProvider == Init /\ [][NextProvider]_vars

\* direct calls of get_all_dex_prices
NextAllDex ==
    \/ GetAllDexPrices
    \/ Return

SpecAllDex == Init /\ [][NextAllDex]_vars

\* the venue price simulator
NextSimulator == GeneratePrices

SpecSimulator == Init /\ [][NextSimulator]_vars

\* a database file that does not exist yet: _create_tables leaves every
\* table empty, and no migration has run
InitFresh ==
    /\ now = 0
    /\ cache = <<>>
    /\ last = NoCall
    /\ tracked = <<>>
    /\ sc_pc = "idle"
    /\ sc_tracked = <<>>
    /\ sc_prices = <<>>
    /\ sc_i = 1
    /\ sc_found = 0
    /\ signals = <<>>
    /\ an_pc = "idle"
    /\ an_threshold = DEFAULT_THRESHOLD
    /\ an_i = 1
    /\ an_prices = <<>>
    /\ an_opps = <<>>
    /\ is_tracked = <<>>
    /\ tm_last = NoTmCall
    /\ prefs = <<>>
    /\ current_theme = DEFAULT_THEME
    /\ theme_btn = "dark"
    /\ pf_last = NoPfCall
    /\ pv_last = NoPvCall
    /\ gp_last = NoGen
    /\ mg_last = [NoMigration EXCEPT !.runs = 0]
    /\ InitWidgets

\* program starts on a new database, with changes made in between
NextMigration ==
    \/ RunMigrations
    \/ TrackingChange
    \/ ThemeChange

SpecMigration == InitFresh /\ [][NextMigration]_vars

\* runs of the scanner thread, exceptions included
NextScanner ==
    \/ ScanOpportunities
    \/ RunFetch
    \/ RunToken
    \/ RunFinish
    \/ RunError

SpecScanner == Init /\ [][NextScanner]_vars

\* runs of the fetcher thread, exceptions and interruptions included
NextFetcher ==
    \/ StartFetcher
    \/ RequestInterruption
    \/ FetchInterrupted
    \/ FetchBegin
    \/ FetchToken
    \/ FetchEnd
    \/ FetchError

SpecFetcher == Init /\ [][NextFetcher]_vars

\* the tracked tokens a session of the widgets starts with: one or none
TrackedAtStart ==
    {remove_tracked_token(InitTracked, [t \in TokenIds |-> TRUE], Cardinality(TokenIds)),
     clear_all_data(InitTracked, [t \in TokenIds |-> TRUE])}

InitScan ==
    /\ now = 0
    /\ cache = <<>>
    /\ last = NoCall
    /\ \E db \in TrackedAtStart : tracked = db.rows /\ is_tracked = db.flags
    /\ sc_pc = "idle"
    /\ sc_tracked = <<>>
    /\ sc_prices = <<>>
    /\ sc_i = 1
    /\ sc_found = 0
    /\ signals = <<>>
    /\ an_pc = "idle"
    /\ an_threshold = DEFAULT_THRESHOLD
    /\ an_i = 1
    /\ an_prices = <<>>
    /\ an_opps = <<>>
    /\ tm_last = NoTmCall
    /\ prefs = <<[key |-> "theme", value |-> DEFAULT_THEME],
                 [key |-> "auto_refresh", value |-> "false"]>>
    /\ current_theme = DEFAULT_THEME
    /\ theme_btn = "dark"
    /\ pf_last = NoPfCall
    /\ pv_last = NoPvCall
    /\ gp_last = NoGen
    /\ mg_last = NoMigration
    /\ InitWidgets

\* scans requested through the ArbitrageTable
NextScan ==
    \/ ScanRequest
    \/ RunFetch
    \/ RunToken
    \/ RunFinish
    \/ RunError
    \/ OnOpportunityFound
    \/ OnScanComplete
    \/ OnScanError

SpecScan == InitScan /\ [][NextScan]_vars

\* the scanner thread handles its next token: what a RunToken step does to
\* the loop index
TokenHandled == sc_pc = "loop" /\ sc_i <= Len(sc_tracked) /\ sc_i' = sc_i + 1

\* the same under fair scheduling: a started thread runs on (it has its own
\* operating-system thread and every request of it has a timeout), and the
\* event loop of the GUI thread handles every queued signal
SpecScanFair ==
    /\ InitScan
    /\ [][NextScan]_vars
    /\ WF_vars(RunFetch)
    /\ WF_sc_i(TokenHandled)
    /\ WF_vars(RunFinish)
    /\ WF_vars(OnOpportunityFound)
    /\ WF_vars(OnScanComplete)
    /\ WF_vars(OnScanError)

\* scans and refreshes requested through the two tables
NextWidgets ==
    \/ ScanRequest
    \/ RunFetch
    \/ RunToken
    \/ RunFinish
    \/ RunError
    \/ OnOpportunityFound
    \/ OnScanComplete
    \/ OnScanError
    \/ RefreshRequest
    \/ FetchBegin
    \/ FetchToken
    \/ FetchEnd
    \/ FetchError
    \/ OnPriceReceived
    \/ OnFetchComplete
    \/ OnFetchError

SpecWidgets == InitScan /\ [][NextWidgets]_vars

\* the price cache under direct bulk calls whose upstream answer is observed
NextUpstream ==
    \/ Tick
    \/ GetBulkAnswered
    \/ Return

SpecUpstream == Init /\ [][NextUpstream]_vars

----------------------------------------------------------------------------
(* What a scan has done so far *)

\* the tracked rows the running or finished scan has handled
Handled == IF sc_pc \in {"loop", "done"} THEN 1..(sc_i - 1) ELSE {}

SymbolOf(row) == TOKENS_CONFIG[row.token_id]

\* the venues of the scan's venue list with a positive fetched price
PositiveVenues(row) ==
    {d \in Dexes : /\ SymbolOf(row) \in DOMAIN sc_prices
                   /\ d \in DOMAIN sc_prices[SymbolOf(row)]
                   /\ sc_prices[SymbolOf(row)][d].price_usd > 0}

FetchedPrice(row, d) == sc_prices[SymbolOf(row)][d].price_usd

LeastPrice(row) ==
    CHOOSE p \in {FetchedPrice(row, d) : d \in PositiveVenues(row)} :
        \A d \in PositiveVenues(row) : p <= FetchedPrice(row, d)

GreatestPrice(row) ==
    CHOOSE p \in {FetchedPrice(row, d) : d \in PositiveVenues(row)} :
        \A d \in PositiveVenues(row) : p >= FetchedPrice(row, d)

\* the opportunities emitted through opportunity_found for a tracked row
EmittedFor(row) ==
    {signals[k].opp : k \in {j \in DOMAIN signals :
        /\ signals[j].sig = "opportunity_found"
        /\ signals[j].opp.token_id = row.token_id}}

Emitted ==
    {signals[k].opp : k \in {j \in DOMAIN signals : signals[j].sig = "opportunity_found"}}

\* profit against the row's threshold, from the prices alone
MeetsThreshold(row, buy_price, sell_price) ==
    IF row.threshold_mode = "percentage"
    THEN (sell_price - buy_price) * 100 >= row.threshold_value * buy_price
    ELSE sell_price - buy_price >= row.threshold_value

RowOf(token_id) == CHOOSE k \in DOMAIN sc_tracked : sc_tracked[k].token_id = token_id

----------------------------------------------------------------------------
(* C1: for every tracked token with at least two positively priced venues  *)
(* and differing least and greatest price, the scan reports an opportunity *)
(* that buys at a least-price venue and sells at a greatest-price venue,   *)
(* wherever those venues stand in the venue list.                          *)
C1_BuyAtMinSellAtMax ==
    \A k \in Handled :
        LET row == sc_tracked[k]
        IN  (Cardinality(PositiveVenues(row)) >= 2 /\ LeastPrice(row) # GreatestPrice(row))
            => \E o \in EmittedFor(row) :
                  /\ FetchedPrice(row, o.buy_dex) = LeastPrice(row)
                  /\ FetchedPrice(row, o.sell_dex) = GreatestPrice(row)

(* C2: every opportunity emitted through opportunity_found, and so counted *)
(* in the total passed to finished, meets the threshold of its token.      *)
C2_EmittedMeetThreshold ==
    /\ \A o \in Emitted :
          MeetsThreshold(sc_tracked[RowOf(o.token_id)], o.buy_price, o.sell_price)
    /\ sc_pc = "done" =>
          signals[Len(signals)].a = Cardinality({k \in DOMAIN signals :
              /\ signals[k].sig = "opportunity_found"
              /\ MeetsThreshold(sc_tracked[RowOf(signals[k].opp.token_id)],
                                signals[k].opp.buy_price, signals[k].opp.sell_price)})

(* C3: every reported opportunity, of the scanner thread and of the        *)
(* analyzer, has buy price <= sell price, and its buy and sell venues      *)
(* carry exactly those prices in the input mapping.                        *)
C3_BuyNotAboveSell ==
    /\ \A o \in Emitted :
          /\ o.buy_price <= o.sell_price
          /\ {o.buy_dex, o.sell_dex} \subseteq PositiveVenues(sc_tracked[RowOf(o.token_id)])
          /\ FetchedPrice(sc_tracked[RowOf(o.token_id)], o.buy_dex) = o.buy_price
          /\ FetchedPrice(sc_tracked[RowOf(o.token_id)], o.sell_dex) = o.sell_price
    /\ \A k \in DOMAIN an_opps :
          /\ an_opps[k].buy_price <= an_opps[k].sell_price
          /\ (an_pc # "idle" /\ an_i > 1 /\ an_opps[k].token = TOKENS_CONFIG[an_i - 1])
             => /\ an_prices[an_opps[k].buy_dex] = <<an_opps[k].buy_price>>
                /\ an_prices[an_opps[k].sell_dex] = <<an_opps[k].sell_price>>

C3_Witness ==
    \E o \in Emitted : o.buy_price < o.sell_price /\ o.buy_dex # dex_keys[1]

(* C4: for every reported opportunity profit_usd = sell_price - buy_price  *)
(* and the percentage equals (sell_price - buy_price) / buy_price * 100,   *)
(* in the scanner thread and in the analyzer; the buy price is positive,   *)
(* so the division is defined.                                             *)
C4_ProfitFormulas ==
    /\ \A o \in Emitted :
          /\ o.buy_price > 0
          /\ o.profit_usd = o.sell_price - o.buy_price
          /\ o.profit_pct.den > 0
          /\ o.profit_pct.num * o.buy_price
                = (o.sell_price - o.buy_price) * 100 * o.profit_pct.den
    /\ \A k \in DOMAIN an_opps :
          LET o == an_opps[k]
          IN  /\ o.buy_price > 0
              /\ o.profit_percent.den > 0
              /\ o.profit_percent.num * o.buy_price
                    = (o.sell_price - o.buy_price) * 100 * o.profit_percent.den

C4_Witness ==
    \E o \in Emitted : o.profit_usd > 0 /\ o.profit_pct.num > 0

(* C5: with the prices fixed and true spread S = (max - min) / min * 100,  *)
(* a scan run with the token's percentage threshold above S reports no     *)
(* opportunity of that token that meets the threshold, and a scan run with *)
(* the threshold below S reports at least one that meets it.               *)
C5_ThresholdAgainstSpread ==
    sc_pc = "done" =>
        \A k \in DOMAIN sc_tracked :
            LET row == sc_tracked[k]
                lo == LeastPrice(row)
                hi == GreatestPrice(row)
                met == {o \in EmittedFor(row) :
                           MeetsThreshold(row, o.buy_price, o.sell_price)}
            IN  (row.threshold_mode = "percentage" /\ Cardinality(PositiveVenues(row)) >= 2)
                => /\ row.threshold_value * lo > (hi - lo) * 100 => met = {}
                   /\ row.threshold_value * lo < (hi - lo) * 100 => met # {}

\* the half of C5 about a threshold above the spread
C5_AboveSpreadNothingMet ==
    sc_pc = "done" =>
        \A k \in DOMAIN sc_tracked :
            LET row == sc_tracked[k]
            IN  (/\ row.threshold_mode = "percentage"
                 /\ Cardinality(PositiveVenues(row)) >= 2
                 /\ row.threshold_value * LeastPrice(row)
                      > (GreatestPrice(row) - LeastPrice(row)) * 100)
                => \A o \in EmittedFor(row) : ~o.threshold_met

\* the venues with a positive price among those read for the analyzer's token
AnalyzerPositive == {d \in Dexes : an_prices[d] # <<>> /\ an_prices[d][1] > 0}

\* the analyzer has handled a token, whose prices an_prices holds
AnalyzerHandled == an_pc # "idle" /\ an_i > 1

(* C6: a token with fewer than two venues with a positive known price      *)
(* (missing entry, None, or price 0) gets no opportunity, in the scanner   *)
(* thread and in the analyzer; the scan still emits progress for it and    *)
(* goes on to the next token.                                              *)
C6_FewerThanTwoVenues ==
    /\ \A k \in Handled :
          /\ Cardinality(PositiveVenues(sc_tracked[k])) < 2 => EmittedFor(sc_tracked[k]) = {}
          /\ \E j \in DOMAIN signals : signals[j] = Progress(k, Len(sc_tracked))
    /\ sc_pc = "done" => Handled = DOMAIN sc_tracked
    /\ (AnalyzerHandled /\ Cardinality(AnalyzerPositive) < 2)
          => \A k \in DOMAIN an_opps : an_opps[k].token # TOKENS_CONFIG[an_i - 1]

C6_Witness ==
    /\ sc_pc = "done"
    /\ \E k \in DOMAIN sc_tracked :
          /\ k < Len(sc_tracked)
          /\ PositiveVenues(sc_tracked[k]) = {}
          /\ \E d \in DOMAIN sc_prices[SymbolOf(sc_tracked[k])] :
                 sc_prices[SymbolOf(sc_tracked[k])][d].price_usd = 0
          /\ EmittedFor(sc_tracked[k + 1]) # {}

\* factors of a uniform rescaling of all prices
Scales == {2, 5}

\* the opportunities emitted for a row, in the order of emission
EmittedSeqFor(row) ==
    LET found == SelectSeq(signals, LAMBDA m :
                     m.sig = "opportunity_found" /\ m.opp.token_id = row.token_id)
    IN  [k \in DOMAIN found |-> found[k].opp]

----------------------------------------------------------------------------
(* Claims about the price cache, over the call recorded in last *)

\* the (symbol, venue) pairs the recorded call asked for
AskedKeys == {make_key(s, d) : s \in Range(last.symbols), d \in Range(last.dexes)}

\* the pair had an entry written less than PRICE_CACHE_TTL before the call
Unexpired(key) ==
    key \in DOMAIN last.pre /\ last.time < last.pre[key].value.last_updated + PRICE_CACHE_TTL

\* the pair had an entry written PRICE_CACHE_TTL or more before the call
ExpiredEntry(key) ==
    key \in DOMAIN last.pre /\ last.time >= last.pre[key].value.last_updated + PRICE_CACHE_TTL

\* the recorded call returned a record for the pair
Returned(key) == key[1] \in DOMAIN last.result /\ key[2] \in DOMAIN last.result[key[1]]

(* C8: when every requested (symbol, venue) has an unexpired cache entry,  *)
(* get_bulk_prices_all_dexes and get_token_price issue no upstream request *)
(* and return exactly the cached records.                                  *)
C8_AllHitsNoRequest ==
    (last.op # "none" /\ \A key \in AskedKeys : Unexpired(key))
    => /\ last.requests = <<>>
       /\ DOMAIN last.result = Range(last.symbols)
       /\ \A key \in AskedKeys :
             Returned(key) /\ last.result[key[1]][key[2]] = last.pre[key].value
       /\ cache = last.pre

C8_Witness ==
    /\ last.op = "bulk"
    /\ Cardinality(AskedKeys) = 4
    /\ \A key \in AskedKeys : Unexpired(key)
    /\ last.time > 0
    /\ last.requests = <<>>

\* the requested symbols with at least one venue missing from the cache
MissingSymbols ==
    {s \in Range(last.symbols) : \E d \in Range(last.dexes) : ~Unexpired(make_key(s, d))}

TTL_ReturnedBeforeExpiry ==
    last.op # "none" =>
        \A key \in AskedKeys :
            Unexpired(key)
            => Returned(key) /\ last.result[key[1]][key[2]] = last.pre[key].value

\* a record cached at t is not returned by a read at or after t + TTL
TTL_NotReturnedAfterExpiry ==
    last.op # "none" =>
        \A key \in AskedKeys :
            (ExpiredEntry(key) /\ Returned(key))
            => last.result[key[1]][key[2]].last_updated = last.time

\* a read after expiry is a miss: it asks upstream, and the record the
\* fetch brings replaces the expired one
TTL_RefetchedAfterExpiry ==
    last.op # "none" =>
        \A key \in AskedKeys :
            ExpiredEntry(key)
            => /\ last.requests # <<>>
               /\ Returned(key)
                    => /\ key \in DOMAIN cache
                       /\ cache[key].value = last.result[key[1]][key[2]]
                       /\ cache[key].expires = last.time + PRICE_CACHE_TTL

(* C10: a price record cached for (symbol, venue) at time t is returned by *)
(* reads strictly before t + PRICE_CACHE_TTL and never by a read at or     *)
(* after t + PRICE_CACHE_TTL; the first read after expiry is a miss that   *)
(* triggers a new upstream fetch, whose record replaces the expired one.   *)
C10_TTLWindow ==
    /\ TTL_ReturnedBeforeExpiry
    /\ TTL_NotReturnedAfterExpiry
    /\ TTL_RefetchedAfterExpiry

----------------------------------------------------------------------------
(* Claims about tracked tokens, over the call recorded in tm_last *)

(* C11: after any sequence of TokenManager.add_token_to_tracked,           *)
(* update_token_threshold and remove_token_from_tracked calls with any     *)
(* arguments, every stored threshold is non-negative and every stored mode *)
(* is 'percentage' or 'dollar'.                                            *)
C11_StoredThresholdsValid ==
    \A k \in DOMAIN tracked :
        tracked[k].threshold_value >= 0 /\ tracked[k].threshold_mode \in Modes

C11_Witness ==
    /\ tm_last.op = "add_token_to_tracked"
    /\ tm_last.value < 0
    /\ tm_last.mode \in Modes
    /\ tm_last.ret = FALSE
    /\ \E k \in DOMAIN tracked : tracked[k].token_id = tm_last.token_id

(* C12: after any sequence of add_tracked_token, remove_tracked_token,     *)
(* update_token_threshold and clear_all_data on seeded tokens, every token *)
(* is in exactly one of get_available_tokens and get_tracked_tokens, and   *)
(* at most once in get_tracked_tokens.                                     *)
C12_TrackedAvailablePartition ==
    LET trk == get_tracked_tokens(tracked, is_tracked)
        av == get_available_tokens(is_tracked)
    IN  \A t \in TokenIds :
            Cardinality({k \in DOMAIN trk : trk[k].token_id = t})
                = (IF t \in av THEN 0 ELSE 1)

C12_Witness ==
    /\ tm_last.op = "add_tracked_token"
    /\ tm_last.ret = "ok"
    /\ \E k \in DOMAIN tm_last.pre_rows : tm_last.pre_rows[k].token_id = tm_last.token_id
    /\ get_available_tokens(is_tracked) # {}

(* C20: add_token_to_tracked and update_token_threshold called with a      *)
(* negative threshold value or a mode other than 'percentage' or 'dollar'  *)
(* return False and leave the tracked-token rows and every is_tracked flag *)
(* unchanged.                                                              *)
C20_InvalidArgsRejected ==
    (/\ tm_last.op \in {"add_token_to_tracked", "update_token_threshold"}
     /\ (tm_last.value < 0 \/ tm_last.mode \notin Modes))
    => /\ tm_last.ret = FALSE
       /\ tracked = tm_last.pre_rows
       /\ is_tracked = tm_last.pre_flags

C20_Witness ==
    /\ tm_last.op = "update_token_threshold"
    /\ tm_last.value < 0
    /\ tm_last.mode \in Modes
    /\ tm_last.ret = FALSE
    /\ \E k \in DOMAIN tracked : tracked[k].token_id = tm_last.token_id

----------------------------------------------------------------------------
(* Claims about the theme and the preferences, over the call in pf_last *)

(* C13: each call of on_theme_toggle changes current_theme to the other of *)
(* 'dark' and 'light', from either theme, and two consecutive toggles      *)
(* restore the theme they started from.                                    *)
C13_ToggleFlipsTheme ==
    pf_last.op = "on_theme_toggle"
    => /\ current_theme \in Themes
       /\ current_theme # pf_last.pre_theme
       /\ pf_last.pre_theme2 # "" => current_theme = pf_last.pre_theme2

\* the keys in play
KnownKeys ==
    PrefKeys \cup {prefs[i].key : i \in DOMAIN prefs}
             \cup {pf_last.pre[i].key : i \in DOMAIN pf_last.pre}

\* the keys save_window_state writes
WindowKeys == {"window_width", "window_height", "window_x", "window_y", "last_tab_index"}

\* the keys the recorded call may write
WrittenKeys ==
    CASE pf_last.op = "set_preference" -> {pf_last.key}
      [] pf_last.op = "on_theme_toggle" -> {"theme"}
      [] pf_last.op = "save_window_state" -> WindowKeys
      [] OTHER -> {}

(* C14: after set_preference(k, v), get_preference(k) returns v until the  *)
(* next set_preference(k, .); a later set replaces the value, so there is  *)
(* one value per key; a set for one key never changes another key; after   *)
(* save_window_state the keys window_width and last_tab_index are present. *)
C14_PreferencesRoundTrip ==
    /\ \A i, j \in DOMAIN prefs : prefs[i].key = prefs[j].key => i = j
    /\ pf_last.op # "none"
          => \A k \in KnownKeys \ WrittenKeys :
                 get_preference(prefs, k, <<>>) = get_preference(pf_last.pre, k, <<>>)
    /\ pf_last.op = "set_preference"
          => get_preference(prefs, pf_last.key, <<>>) = <<pf_last.value>>
    /\ pf_last.op = "get_preference"
          => pf_last.ret = get_preference(prefs, pf_last.key, <<>>)
    /\ pf_last.op = "save_window_state"
          => /\ get_preference(prefs, "window_width", <<>>) # <<>>
             /\ get_preference(prefs, "last_tab_index", <<>>) # <<>>

C14_Witness ==
    /\ pf_last.op = "set_preference"
    /\ pf_last.key = "window_width"
    /\ pf_last.value = "800"
    /\ get_preference(pf_last.pre, "window_width", <<>>) = <<"1200">>
    /\ get_preference(prefs, "last_tab_index", <<>>) # <<>>

----------------------------------------------------------------------------
(* Claims about the provider, the simulator and the analyzer *)

(* C15: get_multiple_prices issues at most one HTTP request per call and   *)
(* never retries; on HTTP 429, on any other non-200 status and on any      *)
(* exception it returns an empty mapping; on success every key of the      *)
(* result is one of the requested symbols.                                 *)
C15_OneRequestNoRetry ==
    pv_last.op = "get_multiple_prices"
    => /\ Len(pv_last.requests) <= 1
       /\ pv_last.status # "200" => pv_last.result = <<>>
       /\ DOMAIN pv_last.result \subseteq Range(pv_last.symbols)

C15_Witness ==
    /\ pv_last.op = "get_multiple_prices"
    /\ pv_last.status = "200"
    /\ Len(pv_last.symbols) = 2
    /\ UnlistedSymbol \in Range(pv_last.symbols)
    /\ Len(pv_last.requests) = 1
    /\ pv_last.result # <<>>

(* C16: every venue price generated from base price p > 0 lies in          *)
(* [0.999*p, 1.02*p] up to rounding to 6 decimals, so the percentage       *)
(* spread between two venue prices of one base price never exceeds         *)
(* (1.02 - 0.999) / 0.999 * 100, and a percentage threshold above that     *)
(* bound is never met.                                                     *)
C16_SimulatedSpreadBound ==
    gp_last.base > 0
    => /\ \A d \in Dexes :
             /\ 2 * (1000 * gp_last.prices[d].price_usd - 1020 * gp_last.base) <= 1000
             /\ 2 * (999 * gp_last.base - 1000 * gp_last.prices[d].price_usd) <= 1000
       /\ \A d, e \in Dexes :
             gp_last.prices[d].price_usd > 0
             => 999 * 100 * (gp_last.prices[e].price_usd - gp_last.prices[d].price_usd)
                    <= (1020 - 999) * 100 * gp_last.prices[d].price_usd
       /\ 999 * gp_last.row.threshold_value > (1020 - 999) * 100
             => \A k \in DOMAIN gp_last.opps : ~gp_last.opps[k].threshold_met

\* the positive prices read for the token the analyzer handled last
AnalyzerList == PositivePrices(an_prices)

\* the opportunities the analyzer returned for that token
AnalyzerGot == SelectSeq(an_opps, LAMBDA o : o.token = TOKENS_CONFIG[an_i - 1])

\* the first venue of the list with price p
FirstVenueAt(dex_list, p) ==
    dex_list[CHOOSE i \in DOMAIN dex_list :
                 /\ dex_list[i][2] = p
                 /\ \A j \in 1..(i - 1) : dex_list[j][2] # p][1]

(* C17: _analyze_price_spread returns an opportunity if and only if        *)
(* (max - min) / min * 100 >= the analyzer's threshold; the opportunity    *)
(* names the minimum-price venue as buy venue and the maximum-price venue  *)
(* as sell venue, the first seen on ties; find_opportunities returns at    *)
(* most one opportunity per token.                                         *)
C17_AnalyzerReportsIffSpread ==
    AnalyzerHandled
    => /\ Len(AnalyzerGot) <= 1
       /\ Len(AnalyzerList) >= 2
          => LET ps == {AnalyzerList[k][2] : k \in DOMAIN AnalyzerList}
                 lo == CHOOSE p \in ps : \A q \in ps : p <= q
                 hi == CHOOSE p \in ps : \A q \in ps : p >= q
             IN  /\ Len(AnalyzerGot) = 1 <=> (hi - lo) * 100 >= an_threshold * lo
                 /\ \A k \in DOMAIN AnalyzerGot :
                       /\ AnalyzerGot[k].buy_dex = FirstVenueAt(AnalyzerList, lo)
                       /\ AnalyzerGot[k].sell_dex = FirstVenueAt(AnalyzerList, hi)

C17_Witness ==
    /\ AnalyzerHandled
    /\ Len(AnalyzerList) = 3
    /\ Len(AnalyzerGot) = 1
    /\ AnalyzerGot[1].profit_percent = Rat(an_threshold, 1)
    /\ AnalyzerGot[1].buy_dex # AnalyzerList[1][1]
    /\ AnalyzerList[2][2] = AnalyzerList[3][2]

(* C18: get_bulk_prices_all_dexes never replaces the cache record of a     *)
(* (symbol, venue) that had an unexpired entry when the call started, and  *)
(* returns that record for it, even when another venue of the same symbol  *)
(* is a miss in the same call.                                             *)
C18_BulkKeepsUnexpired ==
    last.op = "bulk"
    => \A key \in AskedKeys :
           Unexpired(key)
           => /\ key \in DOMAIN cache
              /\ cache[key] = last.pre[key]
              /\ Returned(key)
              /\ last.result[key[1]][key[2]] = last.pre[key].value

(* C19: get_all_dex_prices for a token with no cached entry issues one     *)
(* upstream request, whatever the number of configured venues.             *)
C19_AllDexOneRequest ==
    (last.op = "all" /\ \A key \in AskedKeys : key \notin DOMAIN last.pre)
    => Len(last.requests) = 1

----------------------------------------------------------------------------
(* C21                                                                     *)

\* the row that get_tracked_tokens shows for a token id, if it shows one
TrackedRowOf(token_id) ==
    SelectSeq(get_tracked_tokens(tracked, is_tracked),
              LAMBDA r : r.token_id = token_id)

\* C21: whenever TokenManager.update_token_threshold returns True, the token
\* is tracked and its stored threshold value and mode equal the arguments of
\* the call; for a token that is not tracked it does not return True
C21_UpdateSuccessMeansStored ==
    (tm_last.op = "update_token_threshold" /\ tm_last.ret = TRUE)
        => /\ TrackedRowOf(tm_last.token_id) # <<>>
           /\ \A k \in DOMAIN TrackedRowOf(tm_last.token_id) :
                  /\ TrackedRowOf(tm_last.token_id)[k].threshold_value = tm_last.value
                  /\ TrackedRowOf(tm_last.token_id)[k].threshold_mode = tm_last.mode

----------------------------------------------------------------------------
(* C22                                                                     *)

\* C22: MigrationManager.run_migrations run again, after any sequence of
\* tracking, threshold and theme changes, leaves the token set, the tracked
\* tokens with their thresholds and every existing preference unchanged; it
\* seeds tokens only into an empty tokens table and sets 'theme' and
\* 'auto_refresh' only when they are absent
C22_MigrationsIdempotent ==
    [][mg_last'.runs # mg_last.runs
          => /\ (DOMAIN is_tracked # {} => is_tracked' = is_tracked)
             /\ tracked' = tracked
             /\ \A k \in DOMAIN prefs : prefs'[k] = prefs[k]
             /\ \A k \in DOMAIN prefs' \ DOMAIN prefs :
                    prefs'[k].key \in {"theme", "auto_refresh"}
             /\ (mg_last.runs >= 1 => is_tracked' = is_tracked /\ prefs' = prefs)]_vars

\* the migrations have run a second time on a database with tracked tokens
\* and the light theme saved, and again after that
C22_Witness ==
    /\ mg_last.runs = 3
    /\ mg_last.had_rows
    /\ mg_last.had_theme = <<"light">>
    /\ tracked # <<>>
    /\ is_tracked # <<>>
    /\ get_preference(prefs, "theme", <<>>) = <<"light">>

----------------------------------------------------------------------------
(* C23                                                                     *)

\* the positions of the signals of one kind, in order of emission
PositionsOf(sig) == {k \in DOMAIN signals : signals[k].sig = sig}

\* the number of progress signals emitted before position k
ProgressBefore(k) == Cardinality({j \in PositionsOf("progress") : j < k})

\* C23: in a run of ArbitrageScannerThread, progress(0, total) comes first;
\* the opportunity_found emissions of the i-th tracked token come after
\* progress(i-1, total) and before progress(i, total); a run that has ended
\* without an exception has emitted progress(0..total, total) in order and
\* then, last and once, finished(n), n being the number of opportunity_found
\* emissions; a run that has failed has emitted error once, last, and no
\* finished
C23_SignalOrder ==
    LET total == Len(sc_tracked)
        n == Len(signals)
    IN  /\ signals # <<>> => signals[1] = Progress(0, total)
        /\ \A k \in PositionsOf("progress") : signals[k] = Progress(ProgressBefore(k), total)
        /\ \A k \in PositionsOf("opportunity_found") :
               /\ ProgressBefore(k) \in 1..total
               /\ signals[k].opp.token_id = sc_tracked[ProgressBefore(k)].token_id
        /\ PositionsOf("finished") \cup PositionsOf("error") \subseteq {n}
        /\ sc_pc = "done" <=> PositionsOf("finished") # {}
        /\ sc_pc = "failed" <=> PositionsOf("error") # {}
        /\ sc_pc = "done" =>
               /\ Cardinality(PositionsOf("progress")) = total + 1
               /\ signals[n] = Finished(Cardinality(PositionsOf("opportunity_found")))

\* a run over two tracked tokens has ended with opportunity_found emissions
\* for both of them
C23_Witness ==
    /\ sc_pc = "done"
    /\ Len(sc_tracked) = 2
    /\ \A i \in 1..2 : \E k \in PositionsOf("opportunity_found") : ProgressBefore(k) = i

----------------------------------------------------------------------------
(* C24                                                                     *)

\* the positions of the fetcher's signals of one kind
FtPositionsOf(sig) == {k \in DOMAIN ft_signals : ft_signals[k].sig = sig}

\* C24: a run of PriceFetcherThread that has ended, normally, by an
\* exception or by an interruption, has emitted finished exactly once, after
\* every price_fetched and error emission; a run that has not ended has not
\* emitted it; price_fetched is emitted at most once per (token, venue) and
\* only for pairs of the bulk result, with the record of that pair
C24_FetcherFinishedOnce ==
    /\ Cardinality(FtPositionsOf("finished")) = (IF ft_pc = "done" THEN 1 ELSE 0)
    /\ FtPositionsOf("finished") \subseteq {Len(ft_signals)}
    /\ Cardinality(FtPositionsOf("error")) <= 1
    /\ \A j, k \in FtPositionsOf("price_fetched") :
           (ft_signals[j].symbol = ft_signals[k].symbol
               /\ ft_signals[j].dex = ft_signals[k].dex) => j = k
    /\ \A k \in FtPositionsOf("price_fetched") :
           /\ ft_signals[k].symbol \in DOMAIN ft_prices
           /\ ft_signals[k].dex \in DOMAIN ft_prices[ft_signals[k].symbol]
           /\ ft_signals[k].data = <<ft_prices[ft_signals[k].symbol][ft_signals[k].dex]>>

\* a run over two tokens was interrupted after the prices of the first token
\* were emitted, and has ended
C24_Witness ==
    /\ ft_pc = "done"
    /\ ft_interrupt
    /\ Len(ft_tokens) = 2
    /\ ft_i = 2
    /\ FtPositionsOf("price_fetched") # {}
    /\ FtPositionsOf("finished") = {Len(ft_signals)}

----------------------------------------------------------------------------
(* C25                                                                     *)

\* a step in which scan_opportunities was called
ScanRequested == wd_last' # wd_last \/ sc_threads' > sc_threads

\* a step in which refresh_prices was called
RefreshRequested == fw_last' # fw_last \/ ft_threads' > ft_threads

\* C25: at most one ArbitrageScannerThread of the ArbitrageTable runs at any
\* time, and a scan request arriving while a scan runs starts no thread and
\* leaves the opportunity list, the table rows and the scan button as they
\* are; the same for PriceFetcherThread, prices_cache, the table and the
\* refresh button of CurrentPricesTable.refresh_prices
C25_OneThreadPerTable ==
    /\ [](sc_threads <= 1 /\ ft_threads <= 1)
    /\ [][(isRunning(sc_pc) /\ ScanRequested)
             => UNCHANGED <<scVars, sc_threads, opportunities, table_rows, scan_btn>>]_vars
    /\ [][(isRunning(ft_pc) /\ RefreshRequested)
             => UNCHANGED <<ftVars, prices_cache, fw_rows, refresh_btn>>]_vars

\* a click on the scan button, enabled again by the finished signal of the
\* scan before, was turned away while the next scan was running
C25_Witness ==
    /\ wd_last = [kind |-> "click", outcome |-> "ignored"]
    /\ isRunning(sc_pc)
    /\ sc_threads = 1
    /\ scan_btn

----------------------------------------------------------------------------
(* C26                                                                     *)

\* C26: under fair scheduling, every scan started by scan_opportunities,
\* which disables the scan button, is followed by on_scan_complete or
\* on_scan_error, which enable it: a disabled scan button becomes enabled
\* again, and a running scanner thread ends, so that a later request can
\* start a new scan
C26_ScanButtonReenabled ==
    /\ (~scan_btn) ~> scan_btn
    /\ isRunning(sc_pc) ~> ~isRunning(sc_pc)

\* a scan was started, its thread has ended, on_scan_complete has run and
\* the scan button is enabled
C26_Witness ==
    /\ wd_last.outcome = "started"
    /\ sc_pc = "done"
    /\ Pending(wd_stale, signals, wd_delivered) = <<>>
    /\ status_label = <<"Found", sc_found>>
    /\ scan_btn

----------------------------------------------------------------------------
(* C27                                                                     *)

\* the upstream request of the recorded call did not end with a usable
\* answer: HTTP 429, another error status, or an exception (raised by the
\* request or while the answer is read)
RequestFailed ==
    /\ last.op = "bulk"
    /\ last.requests # <<>>
    /\ \/ last.answer.status # "200"
       \/ ~(DOMAIN last.answer.data \subseteq Range(last.requests[1]))

\* the symbols the recorded call asked the upstream for and got nothing for
NoDataSymbols ==
    IF last.op # "bulk" \/ last.requests = <<>> THEN {}
    ELSE {s \in Range(last.symbols) :
            /\ SYMBOL_TO_ID(s) \in Range(last.requests[1])
            /\ RequestFailed \/ SYMBOL_TO_ID(s) \notin DOMAIN last.answer.data}

\* the times of the calls that can follow the recorded one
LaterTimes == {t \in last.time..MaxTime : (t - last.time) % TickStep = 0}

\* the upstream requests of a later call of get_bulk_prices_all_dexes for
\* token_symbols and the venues of the recorded call
NextRequests(token_symbols, t) ==
    get_bulk_prices_all_dexes(cache, token_symbols, last.dexes,
                              [status |-> "500", data |-> <<>>],
                              [k \in {make_key(s, d) : s \in Symbols, d \in Dexes} |-> 999],
                              t).requests

====
